---------------------------- MODULE Spec2Model ----------------------------
(***************************************************************************)
(* A model of playbooks/library/nginx_config_parser.py: the brace          *)
(* balancer, the grammar table and analyzer, the recursive-descent parser  *)
(* with its recoverable-error policy, and the include worklist drained by  *)
(* parse().                                                                *)
(*                                                                         *)
(* Strings are modelled as tuples of pieces: the word "http" is <<"http">>,*)
(* the path "/etc/a.conf" is <<"/", "etc", "a.conf">>, the comment token   *)
(* "#c" is <<"#", "c">>.  A token of the lexer is a record [t, line, q].   *)
(* The token stream of a file is revealed as the parser pulls it: every    *)
(* file is lexed at most once in a run, so choosing the next tokens when   *)
(* they are pulled is choosing the file's content.                         *)
(***************************************************************************)
EXTENDS Integers, Sequences, FiniteSets, TLC

\* ------------------------------------------------------------------ bounds
\* Number of parser loop iterations (statements or single tokens) in a run.
MaxSteps == 4

\* the longest text given to the lexer, in characters
MaxChars == 4

\* statements read in the runs that nest blocks three deep
MaxDeepSteps == 6

\* the most arguments of a statement handed to analyze
MaxArgs == 8

\* ----------------------------------------------------------------- strings
W(s) == <<s>>

LBRACE == W("{")
RBRACE == W("}")
SEMI == W(";")

\* getattr(e, "lineno", None): the line of an exception that carries none
NoLine == 0

\* ------------------------------------------------------------ grammar table
\* A mask is the set of the bit positions set in the source's integer mask.
NGX_CONF_NOARGS == 0
NGX_CONF_TAKE1 == 1
NGX_CONF_TAKE2 == 2
NGX_CONF_TAKE3 == 3
NGX_CONF_TAKE4 == 4
NGX_CONF_TAKE5 == 5
NGX_CONF_TAKE6 == 6
NGX_CONF_TAKE7 == 7
NGX_CONF_BLOCK == 8
NGX_CONF_FLAG == 9
NGX_CONF_ANY == 10
NGX_CONF_1MORE == 11
NGX_CONF_2MORE == 12
NGX_CONF_TAKE12 == {NGX_CONF_TAKE1, NGX_CONF_TAKE2}
NGX_MAIN_CONF == 18
NGX_EVENT_CONF == 19
NGX_HTTP_MAIN_CONF == 25
NGX_HTTP_SRV_CONF == 26
NGX_HTTP_LOC_CONF == 27
NGX_HTTP_UPS_CONF == 28
NGX_HTTP_SIF_CONF == 29
NGX_HTTP_LIF_CONF == 30
NGX_HTTP_LMT_CONF == 31

CONTEXTS ==
  ( <<>> :> NGX_MAIN_CONF )
  @@ ( <<W("events")>> :> NGX_EVENT_CONF )
  @@ ( <<W("http")>> :> NGX_HTTP_MAIN_CONF )
  @@ ( <<W("http"), W("server")>> :> NGX_HTTP_SRV_CONF )
  @@ ( <<W("http"), W("location")>> :> NGX_HTTP_LOC_CONF )
  @@ ( <<W("http"), W("upstream")>> :> NGX_HTTP_UPS_CONF )
  @@ ( <<W("http"), W("server"), W("if")>> :> NGX_HTTP_SIF_CONF )
  @@ ( <<W("http"), W("location"), W("if")>> :> NGX_HTTP_LIF_CONF )
  @@ ( <<W("http"), W("location"), W("limit_except")>> :> NGX_HTTP_LMT_CONF )

HttpSrvLoc == {NGX_HTTP_MAIN_CONF, NGX_HTTP_SRV_CONF, NGX_HTTP_LOC_CONF}

DIRECTIVES ==
  ( W("events") :> << {NGX_MAIN_CONF, NGX_CONF_BLOCK, NGX_CONF_NOARGS} >> )
  @@ ( W("http") :> << {NGX_MAIN_CONF, NGX_CONF_BLOCK, NGX_CONF_NOARGS} >> )
  @@ ( W("server") :> << {NGX_HTTP_MAIN_CONF, NGX_CONF_BLOCK, NGX_CONF_NOARGS} >> )
  @@ ( W("location") :> << HttpSrvLoc \cup {NGX_CONF_1MORE, NGX_CONF_BLOCK} >> )
  @@ ( W("upstream") :> << {NGX_HTTP_MAIN_CONF, NGX_CONF_TAKE1, NGX_CONF_BLOCK} >> )
  @@ ( W("include") :> << {NGX_MAIN_CONF} \cup HttpSrvLoc \cup {NGX_CONF_TAKE1} >> )
  @@ ( W("listen") :> << {NGX_HTTP_SRV_CONF, NGX_CONF_1MORE} >> )
  @@ ( W("server_name") :> << {NGX_HTTP_SRV_CONF, NGX_CONF_1MORE} >> )
  @@ ( W("root") :> << HttpSrvLoc \cup {NGX_CONF_TAKE1} >> )
  @@ ( W("index") :> << HttpSrvLoc \cup {NGX_CONF_1MORE} >> )
  @@ ( W("error_page") :> << HttpSrvLoc \cup {NGX_CONF_2MORE} >> )
  @@ ( W("access_log") :> << HttpSrvLoc \cup {NGX_CONF_1MORE} >> )
  @@ ( W("error_log") :> << {NGX_MAIN_CONF} \cup HttpSrvLoc \cup {NGX_CONF_1MORE} >> )
  @@ ( W("worker_processes") :> << {NGX_MAIN_CONF, NGX_CONF_TAKE1} >> )
  @@ ( W("worker_connections") :> << {NGX_EVENT_CONF, NGX_CONF_TAKE1} >> )
  @@ ( W("keepalive_timeout") :> << HttpSrvLoc \cup NGX_CONF_TAKE12 >> )
  @@ ( W("gzip") :> << HttpSrvLoc \cup {NGX_CONF_FLAG} >> )
  @@ ( W("return") :> << {NGX_HTTP_SRV_CONF, NGX_HTTP_LOC_CONF} \cup NGX_CONF_TAKE12 >> )
  @@ ( W("try_files") :> << {NGX_HTTP_LOC_CONF, NGX_CONF_2MORE} >> )
  @@ ( W("proxy_pass") :> << {NGX_HTTP_LOC_CONF, NGX_CONF_TAKE1} >> )
  @@ ( W("if") :> << {NGX_HTTP_SRV_CONF, NGX_HTTP_LOC_CONF, NGX_CONF_1MORE, NGX_CONF_BLOCK} >> )

\* a context that grows with every block, location or not
enter_block_ctx_append(stmt, ctx) == Append(ctx, stmt.directive)

\* enter_block_ctx(stmt, ctx)
enter_block_ctx(stmt, ctx) ==
  IF ctx # <<>> /\ ctx[1] = W("http") /\ stmt.directive = W("location")
  THEN <<W("http"), W("location")>>
  ELSE Append(ctx, stmt.directive)

\* x.lower() on the pieces the model uses
LowerPiece(p) ==
  CASE p = "ON" -> "on"
    [] p = "On" -> "on"
    [] p = "OFF" -> "off"
    [] p = "Off" -> "off"
    [] OTHER -> p

valid_flag(x) == Len(x) = 1 /\ LowerPiece(x[1]) \in {"on", "off"}

\* The exceptions the parser raises: [cls, strerror, filename, lineno].
\* strerror is a tuple <<reason, directive or argument>>.
NgxError(cls, strerror, filename, lineno) ==
  [cls |-> cls, strerror |-> strerror, filename |-> filename, lineno |-> lineno]

NoError == [cls |-> "none", strerror |-> <<>>, filename |-> <<>>, lineno |-> NoLine]

\* a scan whose exact-count test reads the bit of any argument count
RECURSIVE MaskScan_uncapped(_, _, _, _, _)
MaskScan_uncapped(masks, k, term, args, reason) ==
  IF k = 0 THEN <<FALSE, reason>>
  ELSE
    LET mask == masks[k]
        n_args == Len(args)
    IN
    IF NGX_CONF_BLOCK \in mask /\ term # LBRACE
    THEN MaskScan_uncapped(masks, k - 1, term, args, "has no opening")
    ELSE IF NGX_CONF_BLOCK \notin mask /\ term # SEMI
    THEN MaskScan_uncapped(masks, k - 1, term, args, "is not terminated by")
    ELSE IF \/ n_args \in mask
            \/ (NGX_CONF_FLAG \in mask /\ n_args = 1 /\ valid_flag(args[1]))
            \/ (NGX_CONF_ANY \in mask /\ n_args >= 0)
            \/ (NGX_CONF_1MORE \in mask /\ n_args >= 1)
            \/ (NGX_CONF_2MORE \in mask /\ n_args >= 2)
    THEN <<TRUE, reason>>
    ELSE IF NGX_CONF_FLAG \in mask /\ n_args = 1 /\ ~valid_flag(args[1])
    THEN MaskScan_uncapped(masks, k - 1, term, args, "invalid value")
    ELSE MaskScan_uncapped(masks, k - 1, term, args, "invalid number of arguments")

\* One pass of the loop "for mask in reversed(masks)" of analyze, from index k
\* down to 1; reason is the message set so far.  Returns <<accepted, reason>>.
RECURSIVE MaskScan(_, _, _, _, _)
MaskScan(masks, k, term, args, reason) ==
  IF k = 0 THEN <<FALSE, reason>>
  ELSE
    LET mask == masks[k]
        n_args == Len(args)
    IN
    IF NGX_CONF_BLOCK \in mask /\ term # LBRACE
    THEN MaskScan(masks, k - 1, term, args, "has no opening")
    ELSE IF NGX_CONF_BLOCK \notin mask /\ term # SEMI
    THEN MaskScan(masks, k - 1, term, args, "is not terminated by")
    ELSE IF \/ (n_args \in mask /\ n_args <= 7)
            \/ (NGX_CONF_FLAG \in mask /\ n_args = 1 /\ valid_flag(args[1]))
            \/ (NGX_CONF_ANY \in mask /\ n_args >= 0)
            \/ (NGX_CONF_1MORE \in mask /\ n_args >= 1)
            \/ (NGX_CONF_2MORE \in mask /\ n_args >= 2)
    THEN <<TRUE, reason>>
    ELSE IF NGX_CONF_FLAG \in mask /\ n_args = 1 /\ ~valid_flag(args[1])
    THEN MaskScan(masks, k - 1, term, args, "invalid value")
    ELSE MaskScan(masks, k - 1, term, args, "invalid number of arguments")

\* the context filter of analyze with its test inverted
SelectMasks_Inverted(masks, bit) == SelectSeq(masks, LAMBDA m : bit \notin m)

SelectMasks(masks, bit) == SelectSeq(masks, LAMBDA m : bit \in m)

\* a strict test that lets every name through
is_unknown_never(strict, directive) == FALSE

\* line 660: `strict and directive not in DIRECTIVES`
is_unknown(strict, directive) == strict /\ directive \notin DOMAIN DIRECTIVES

\* analyze(fname, stmt, term, ctx, strict, check_ctx, check_args): the
\* exception it raises, or NoError when it returns.
analyze(fname, stmt, term, ctx, strict, check_ctx, check_args) ==
  LET directive == stmt.directive
      line == stmt.line
  IN
  IF is_unknown(strict, directive)
  THEN NgxError("NgxParserDirectiveUnknownError", <<"unknown directive", directive>>, fname, line)
  ELSE IF ctx \notin DOMAIN CONTEXTS \/ directive \notin DOMAIN DIRECTIVES
  THEN NoError
  ELSE
    LET all == DIRECTIVES[directive]
        masks == IF check_ctx THEN SelectMasks(all, CONTEXTS[ctx]) ELSE all
    IN
    IF check_ctx /\ masks = <<>>
    THEN NgxError("NgxParserDirectiveContextError", <<"is not allowed here", directive>>, fname, line)
    ELSE IF ~check_args
    THEN NoError
    ELSE
      LET r == MaskScan(masks, Len(masks), term, stmt.args, "")
      IN IF r[1] THEN NoError
         ELSE NgxError("NgxParserDirectiveArgumentsError", <<r[2], directive>>, fname, line)


\* ------------------------------------------------------------------- paths
\* os.path.dirname, os.path.isabs, os.path.join on piece tuples
dirname(p) == SubSeq(p, 1, Len(p) - 1)

isabs(p) == p # <<>> /\ p[1] = "/"

join(d, p) == IF isabs(p) THEN p ELSE d \o p

\* glob.has_magic: a piece holding one of * ? [
MagicPieces == {"*.conf", "*.none", "?.conf"}

\* a has_magic that finds no metacharacter
has_magic_never(p) == FALSE

has_magic(p) == \E i \in 1..Len(p) : p[i] \in MagicPieces

\* fnmatch of one piece against a pattern piece
PieceMatch(pat, x) ==
  IF pat = "*.conf" THEN x \in {"a.conf", "b.conf", "c.conf", "nginx.conf"}
  ELSE IF pat = "*.none" THEN FALSE
  ELSE IF pat = "?.conf" THEN x \in {"a.conf", "b.conf", "c.conf"}
  ELSE pat = x

\* the order of list.sort() on the file names the model uses
PieceRank(x) ==
  CASE x = "a.conf" -> 1
    [] x = "b.conf" -> 2
    [] x = "c.conf" -> 3
    [] x = "nginx.conf" -> 4
    [] OTHER -> 5

RECURSIVE SortedByName(_)
SortedByName(S) ==
  IF S = {} THEN <<>>
  ELSE LET m == CHOOSE x \in S :
                  \A y \in S : PieceRank(x[Len(x)]) <= PieceRank(y[Len(y)])
       IN <<m>> \o SortedByName(S \ {m})

\* glob.glob(pattern) followed by fnames.sort(), over the openable files
glob(pattern, files) ==
  SortedByName({f \in files :
                  /\ Len(f) = Len(pattern)
                  /\ \A i \in 1..Len(f) : PieceMatch(pattern[i], f[i])})

\* The file parse() is called on, and the files that may exist beside it.
RootFile == <<"/", "etc", "nginx.conf">>
FileA == <<"/", "etc", "a.conf">>
FileB == <<"/", "etc", "b.conf">>

\* files in a directory below the one of the root file
FileSubC == <<"/", "etc", "sub", "c.conf">>
FileSubD == <<"/", "etc", "sub", "d.conf">>

\* ------------------------------------------------------------------- state
VARIABLES
  opts,      \* the keyword arguments of parse(): catch_errors, ignore, single, comments, strict, combine
  profile,   \* which family of token streams the files of this run are drawn from
  fs,        \* the files that can be opened and read
  includes,  \* parse.includes: the worklist of (filename, context) entries
  included,  \* parse.included: filename -> worklist index
  payload,   \* parse.payload
  idx,       \* number of worklist entries the outer loop has taken
  pc,        \* "loop": at the head of the outer loop; "parse": inside _parse;
             \* "end": _parse has returned or raised; "done": parse has returned
  parsing,   \* the FileParseResult of the file being parsed
  stack,     \* the activations of _parse, innermost last
  stream,    \* the generator lex(fname): balancer depth and line, position
  exc,       \* the exception propagating out of _parse, or NoError
  steps,     \* number of loop iterations that pulled tokens (bounded by MaxSteps)
  log,       \* history: per worklist entry taken, the tokens of the file (those the
             \* balancer saw, and the rest of the statement in hand when it raised;
             \* the file ends there) and the exception that ended its parse
  result,    \* what parse() returned
  readable,  \* what create_readable_nginx_config(result) returned, once called
  source,    \* the characters of a file handed to the lexer alone
  lexed,     \* what the lexer made of source, once it has run
  analysis   \* a statement handed to analyze alone, and what analyze raised

vars == <<opts, profile, fs, includes, included, payload, idx, pc, parsing,
          stack, stream, exc, steps, log, result, readable, source, lexed, analysis>>

\* create_readable_nginx_config has not been called
NotRead == [called |-> FALSE]

\* the lexer has not run
NotLexed == [ran |-> FALSE]

\* analyze is not called on its own
NotAnalyzed == [called |-> FALSE]

config_dir == dirname(RootFile)

NoStmt == [directive |-> <<>>, line |-> NoLine, args |-> <<>>]

\* ------------------------------------------------- token stream and balancer
IsOpen(tok) == tok.t = LBRACE /\ ~tok.q

IsClose(tok) == tok.t = RBRACE /\ ~tok.q

\* the negation of `token not in ("{", ";", "}") or quoted`
IsTerm(tok) == tok.t \in {LBRACE, SEMI, RBRACE} /\ ~tok.q

\* token.startswith("#") and not quoted
IsComment(tok) == tok.t # <<>> /\ tok.t[1] = "#" /\ ~tok.q

\* The generator lex(fname), not yet started.  st is "new" before the first
\* pull, "open" while tokens flow, "eof" once the lexer is exhausted, "dead"
\* once the generator has raised before exhaustion.  The layout of the file
\* is fixed: a line break follows every unquoted { ; } and every comment.
NewStream(f) ==
  [file |-> f, st |-> "new", depth |-> 0, line |-> NoLine, next |-> 1,
   seen |-> <<>>, passed |-> <<>>, unread |-> <<>>]

\* _balance_braces counting quoted brace tokens too
balance_depth_quoted(depth, tok) ==
  IF tok.t = RBRACE THEN depth - 1
  ELSE IF tok.t = LBRACE THEN depth + 1
  ELSE depth

\* _balance_braces, the depth after one token
balance_depth(depth, tok) ==
  IF IsClose(tok) THEN depth - 1
  ELSE IF IsOpen(tok) THEN depth + 1
  ELSE depth

\* _balance_braces, "if depth < 0: raise" after one token
balance_raises(depth) == depth < 0

\* _balance_braces, "if depth > 0: raise" at exhaustion
balance_eof_raises(depth) == depth > 0

OSError(path, lineno) ==
  NgxError("OSError", <<"No such file or directory", path>>, <<>>, lineno)

StopIteration == NgxError("StopIteration", <<"", <<>>>>, <<>>, NoLine)

IndexError == NgxError("IndexError", <<"list index out of range", <<>>>>, <<>>, NoLine)

RecursionError ==
  NgxError("RecursionError", <<"maximum recursion depth exceeded", <<>>>>, <<>>, NoLine)

\* lex(filename), pulled for the tokens raws (then to exhaustion when eof):
\* the stream afterwards, the tokens yielded, and the exception raised, if any.
RECURSIVE Pull(_, _, _)
Pull(s, raws, eof) ==
  IF s.st \in {"eof", "dead"}
  THEN [s |-> s, out |-> <<>>, exc |-> NoError]
  ELSE IF s.st = "new" /\ s.file \notin fs
  THEN [s |-> [s EXCEPT !.st = "dead"], out |-> <<>>, exc |-> OSError(s.file, NoLine)]
  ELSE IF raws = <<>>
  THEN IF ~eof
       THEN [s |-> [s EXCEPT !.st = "open"], out |-> <<>>, exc |-> NoError]
       ELSE [s |-> [s EXCEPT !.st = "eof"], out |-> <<>>,
             exc |-> IF balance_eof_raises(s.depth)
                     THEN NgxError("NgxParserSyntaxError",
                                   <<"unexpected end of file, expecting", RBRACE>>,
                                   s.file, s.line)
                     ELSE NoError]
  ELSE
    LET tok == [t |-> raws[1].t, line |-> s.next, q |-> raws[1].q]
        d == balance_depth(s.depth, tok)
        s1 == [s EXCEPT !.st = "open", !.depth = d, !.line = tok.line,
                        !.next = IF IsTerm(tok) \/ IsComment(tok) THEN @ + 1 ELSE @,
                        !.seen = Append(@, tok)]
    IN
    IF balance_raises(d)
    THEN [s |-> [s1 EXCEPT !.st = "dead", !.unread = Tail(raws)], out |-> <<>>,
          exc |-> NgxError("NgxParserSyntaxError", <<"unexpected", RBRACE>>,
                           s.file, tok.line)]
    ELSE LET r == Pull([s1 EXCEPT !.passed = Append(@, tok)], Tail(raws), eof)
         IN [r EXCEPT !.out = <<tok>> \o @]

\* ------------------------------------------------------------ the lexer
\* A text is a sequence of characters.  An item of _iterescape is the tuple of
\* the one or two characters it yields as one string; a token of the lexer is
\* the tuple of the characters of its text.
Whitespace == {<<" ">>, <<"\n">>, <<"\t">>}

\* str.isspace() of an item
isspace(char) == char \in Whitespace

\* char.endswith("\n")
endswith_newline(char) == char[Len(char)] = "\n"

\* _iterescape under fix_pep_479: a backslash takes the next character with
\* it; when none is left, next(chars) raises StopIteration inside the
\* generator, which becomes a RuntimeError that the wrapper swallows.
RECURSIVE iterescape(_)
iterescape(chars) ==
  IF chars = <<>> THEN <<>>
  ELSE IF chars[1] = "\\"
  THEN IF Len(chars) = 1
       THEN <<>>
       ELSE <<SubSeq(chars, 1, 2)>> \o iterescape(SubSeq(chars, 3, Len(chars)))
  ELSE <<SubSeq(chars, 1, 1)>> \o iterescape(Tail(chars))

\* _iterlinecount: the line is advanced before the item is yielded
RECURSIVE iterlinecount(_, _)
iterlinecount(items, line) ==
  IF items = <<>> THEN <<>>
  ELSE LET l == IF endswith_newline(items[1]) THEN line + 1 ELSE line
       IN <<[char |-> items[1], line |-> l]>> \o iterlinecount(Tail(items), l)

Tok(t, line, q) == [t |-> t, line |-> line, q |-> q]

\* "while char.isspace(): char, line = next(it)": the position of the first
\* item from i on that is not whitespace, Len(it) + 1 when next(it) runs out
RECURSIVE skip_space(_, _)
skip_space(it, i) ==
  IF i > Len(it) THEN i
  ELSE IF isspace(it[i].char) THEN skip_space(it, i + 1)
  ELSE i

\* "while not char.endswith("\n"): token = token + char; char, _ = next(it)"
RECURSIVE read_comment(_, _, _)
read_comment(it, i, token) ==
  IF i > Len(it) THEN [i |-> i, token |-> token]
  ELSE IF endswith_newline(it[i].char) THEN [i |-> i, token |-> token]
  ELSE read_comment(it, i + 1, token \o it[i].char)

\* "while token[-1] != "}" and not char.isspace(): token += char; next(it)"
RECURSIVE read_expansion(_, _, _)
read_expansion(it, i, token) ==
  IF i > Len(it) THEN [i |-> i, token |-> token]
  ELSE IF token[Len(token)] # "}" /\ ~isspace(it[i].char)
  THEN read_expansion(it, i + 1, token \o it[i].char)
  ELSE [i |-> i, token |-> token]

\* "while char != quote: token += quote if char == "\\" + quote else char"
RECURSIVE read_quoted(_, _, _, _)
read_quoted(it, i, quote, token) ==
  IF i > Len(it) THEN [i |-> i, token |-> token]
  ELSE IF it[i].char # quote
  THEN read_quoted(it, i + 1, quote,
                   token \o (IF it[i].char = <<"\\">> \o quote THEN quote
                             ELSE it[i].char))
  ELSE [i |-> i, token |-> token]

\* _lex_file_object under fix_pep_479, from the i-th item on: the tokens
\* yielded.  Wherever next(it) finds the input exhausted the generator ends
\* and what was yielded so far is the whole output; the loop's own exhaustion
\* ends it too, and the token buffer is not yielded.  EXTERNAL_LEXERS is empty.
RECURSIVE lex_file_object(_, _, _, _, _)
lex_file_object(it, i0, token0, token_line0, out0) ==
  IF i0 > Len(it) THEN out0
  ELSE
    LET sp == isspace(it[i0].char)
        out1 == IF sp /\ token0 # <<>>
                THEN Append(out0, Tok(token0, token_line0, FALSE))
                ELSE out0
        token1 == IF sp THEN <<>> ELSE token0
        i1 == IF sp THEN skip_space(it, i0) ELSE i0
    IN
    IF i1 > Len(it) THEN out1
    ELSE IF token1 = <<>> /\ it[i1].char = <<"#">>
    THEN LET c == read_comment(it, i1, <<>>)
         IN IF c.i > Len(it) THEN out1
            ELSE lex_file_object(it, c.i + 1, <<>>, token_line0,
                                 Append(out1, Tok(c.token, it[i1].line, FALSE)))
    ELSE
      LET token_line == IF token1 = <<>> THEN it[i1].line ELSE token_line0
          x == IF token1 # <<>> /\ token1[Len(token1)] = "$" /\ it[i1].char = <<"{">>
               THEN read_expansion(it, i1, token1)
               ELSE [i |-> i1, token |-> token1]
      IN
      IF x.i > Len(it) THEN out1
      ELSE
        LET char == it[x.i].char
            line == it[x.i].line
        IN
        IF char \in {<<"\"">>, <<"'">>}
        THEN IF x.token # <<>>
             THEN lex_file_object(it, x.i + 1, x.token \o char, token_line, out1)
             ELSE LET q == read_quoted(it, x.i + 1, char, <<>>)
                  IN IF q.i > Len(it) THEN out1
                     ELSE lex_file_object(it, q.i + 1, <<>>, token_line,
                                          Append(out1, Tok(q.token, token_line, TRUE)))
        ELSE IF char \in {LBRACE, RBRACE, SEMI}
        THEN lex_file_object(it, x.i + 1, <<>>, token_line,
                             (IF x.token # <<>>
                              THEN Append(out1, Tok(x.token, token_line, FALSE))
                              ELSE out1) \o <<Tok(char, line, FALSE)>>)
        ELSE lex_file_object(it, x.i + 1, x.token \o char, token_line, out1)

\* _balance_braces run to its end: the tokens it passes on and what it raises
RECURSIVE balance_braces(_, _, _, _, _)
balance_braces(tokens, filename, depth, line, out) ==
  IF tokens = <<>>
  THEN [tokens |-> out,
        exc |-> IF balance_eof_raises(depth)
                THEN NgxError("NgxParserSyntaxError",
                              <<"unexpected end of file, expecting", RBRACE>>,
                              filename, line)
                ELSE NoError]
  ELSE LET d == balance_depth(depth, tokens[1])
       IN IF balance_raises(d)
          THEN [tokens |-> out,
                exc |-> NgxError("NgxParserSyntaxError", <<"unexpected", RBRACE>>,
                                 filename, tokens[1].line)]
          ELSE balance_braces(Tail(tokens), filename, d, tokens[1].line,
                              Append(out, tokens[1]))

\* list(lex(filename)) for a file holding the text chars
lex(filename, chars) ==
  balance_braces(lex_file_object(iterlinecount(iterescape(chars), 1), 1, <<>>, 0, <<>>),
                 filename, 0, NoLine, <<>>)

\* ------------------------------------------------------------ _handle_error
IsNgx(e) ==
  e.cls \in {"NgxParserSyntaxError", "NgxParserDirectiveArgumentsError",
             "NgxParserDirectiveContextError", "NgxParserDirectiveUnknownError"}

\* NgxParserDirectiveError and its subclasses
IsDirectiveError(e) ==
  e.cls \in {"NgxParserDirectiveArgumentsError", "NgxParserDirectiveContextError",
             "NgxParserDirectiveUnknownError"}

\* str(e)
Str(e) ==
  IF IsNgx(e) THEN <<e.strerror, e.filename, e.lineno>>
  ELSE <<e.strerror, <<>>, NoLine>>

\* _handle_error recording the error without marking either status failed
handle_error_keeps_status(pg, pl, e) ==
  [parsing |-> [pg EXCEPT !.errors = Append(@, [error |-> Str(e), line |-> e.lineno])],
   payload |-> [pl EXCEPT !.errors = Append(@, [file |-> pg.file, error |-> Str(e),
                                                line |-> e.lineno])]]

\* _handle_error marking the payload failed but leaving the file's status
handle_error_file_stays_ok(pg, pl, e) ==
  [parsing |-> [pg EXCEPT !.errors = Append(@, [error |-> Str(e), line |-> e.lineno])],
   payload |-> [pl EXCEPT !.status = "failed",
                          !.errors = Append(@, [file |-> pg.file, error |-> Str(e),
                                                line |-> e.lineno])]]

\* _handle_error(parsing, e) with onerror=None: the parsing and payload after it
handle_error(pg, pl, e) ==
  [parsing |-> [pg EXCEPT !.status = "failed",
                          !.errors = Append(@, [error |-> Str(e), line |-> e.lineno])],
   payload |-> [pl EXCEPT !.status = "failed",
                          !.errors = Append(@, [file |-> pg.file, error |-> Str(e),
                                                line |-> e.lineno])]]

\* ------------------------------------------------------------------ _parse
\* One activation of _parse.  kind says what the activation waits for while
\* an inner activation runs: "block" (stmt["block"] = _parse(...), then the
\* statement pend and its comments coms are appended), "consume" (the value
\* of _parse(..., consume=True) is dropped), or "none".
Frame(ctx, consume) ==
  [ctx |-> ctx, consume |-> consume, parsed |-> <<>>, fname |-> parsing.file,
   pend |-> NoStmt, kind |-> "none", coms |-> <<>>]

\* the "while token not in ..." loop: arguments and comments up to the
\* terminator at index k of D; k = 0 when D ends before a terminator
RECURSIVE ReadArgs(_, _, _, _)
ReadArgs(D, k, args, coms) ==
  IF k > Len(D) THEN [args |-> args, coms |-> coms, k |-> 0]
  ELSE IF IsTerm(D[k]) THEN [args |-> args, coms |-> coms, k |-> k]
  ELSE IF IsComment(D[k]) THEN ReadArgs(D, k + 1, args, Append(coms, Tail(D[k].t)))
  ELSE ReadArgs(D, k + 1, Append(args, D[k].t), coms)

\* _prepare_if_args(stmt): the arguments afterwards
prepare_if_args(args) ==
  IF /\ args # <<>>
     /\ args[1] # <<>> /\ args[1][1] = "("
     /\ args[Len(args)] # <<>> /\ args[Len(args)][Len(args[Len(args)])] = ")"
  THEN LET a1 == [args EXCEPT ![1] = Tail(@)]
           a2 == [a1 EXCEPT ![Len(a1)] = SubSeq(@, 1, Len(@) - 1)]
           start == IF a2[1] = <<>> THEN 1 ELSE 0
           end == Len(a2) - (IF a2[Len(a2)] = <<>> THEN 1 ELSE 0)
       IN SubSeq(a2, start + 1, end)
  ELSE args

\* the comment statements appended after a statement
RECURSIVE CommentStmts(_, _)
CommentStmts(coms, line) ==
  IF coms = <<>> THEN <<>>
  ELSE <<[directive |-> W("#"), line |-> line, args |-> <<>>, comment |-> coms[1]]>>
       \o CommentStmts(Tail(coms), line)

\* Register without the test "fname not in included": every resolved path is
\* appended to the worklist again
RECURSIVE Register_NoDedupe(_, _, _, _)
Register_NoDedupe(fnames, inc, incd, ctx) ==
  IF fnames = <<>> THEN [includes |-> inc, included |-> incd, idxs |-> <<>>]
  ELSE
    LET fname == fnames[1]
        incd1 == (fname :> Len(inc)) @@ incd
        inc1 == Append(inc, [fname |-> fname, ctx |-> ctx])
        r == Register_NoDedupe(Tail(fnames), inc1, incd1, ctx)
    IN [r EXCEPT !.idxs = <<incd1[fname]>> \o @]

\* Register enqueuing every file in the main context
RECURSIVE Register_MainCtx(_, _, _, _)
Register_MainCtx(fnames, inc, incd, ctx) ==
  IF fnames = <<>> THEN [includes |-> inc, included |-> incd, idxs |-> <<>>]
  ELSE
    LET fname == fnames[1]
        fresh == fname \notin DOMAIN incd
        incd1 == IF fresh THEN incd @@ (fname :> Len(inc)) ELSE incd
        inc1 == IF fresh THEN Append(inc, [fname |-> fname, ctx |-> <<>>]) ELSE inc
        r == Register_MainCtx(Tail(fnames), inc1, incd1, ctx)
    IN [r EXCEPT !.idxs = <<incd1[fname]>> \o @]

\* Register storing len(includes) after the append instead of before it
RECURSIVE Register_IndexAfterAppend(_, _, _, _)
Register_IndexAfterAppend(fnames, inc, incd, ctx) ==
  IF fnames = <<>> THEN [includes |-> inc, included |-> incd, idxs |-> <<>>]
  ELSE
    LET fname == fnames[1]
        fresh == fname \notin DOMAIN incd
        inc1 == IF fresh THEN Append(inc, [fname |-> fname, ctx |-> ctx]) ELSE inc
        incd1 == IF fresh THEN incd @@ (fname :> Len(inc1)) ELSE incd
        r == Register_IndexAfterAppend(Tail(fnames), inc1, incd1, ctx)
    IN [r EXCEPT !.idxs = <<incd1[fname]>> \o @]

\* the loop "for fname in fnames" of an include statement: the worklist, the
\* index map and the indices stored in stmt["includes"]
RECURSIVE Register(_, _, _, _)
Register(fnames, inc, incd, ctx) ==
  IF fnames = <<>> THEN [includes |-> inc, included |-> incd, idxs |-> <<>>]
  ELSE
    LET fname == fnames[1]
        fresh == fname \notin DOMAIN incd
        incd1 == IF fresh THEN incd @@ (fname :> Len(inc)) ELSE incd
        inc1 == IF fresh THEN Append(inc, [fname |-> fname, ctx |-> ctx]) ELSE inc
        r == Register(Tail(fnames), inc1, incd1, ctx)
    IN [r EXCEPT !.idxs = <<incd1[fname]>> \o @]

\* `e.strerror.endswith(' is not terminated by ";"')`
not_terminated(e) == e.strerror[1] = "is not terminated by"

\* What one iteration of the loop of _parse does to the activation F.
\* act: "stay" (continue), "pop" (break, or the loop ends), "push" (an inner
\* _parse is called), "raise".
Outcome(act, F, child, h, inc, incd, e) ==
  [act |-> act, frame |-> F, child |-> child, parsing |-> h.parsing,
   payload |-> h.payload, includes |-> inc, included |-> incd, exc |-> e]

Unchanged == [parsing |-> parsing, payload |-> payload]

Stay(F, h) == Outcome("stay", F, F, h, includes, included, NoError)

Pop(F, h) == Outcome("pop", F, F, h, includes, included, NoError)

Raise(F, e) == Outcome("raise", F, F, Unchanged, includes, included, e)

PushConsume(F, h) ==
  Outcome("push", [F EXCEPT !.kind = "consume"], Frame(<<>>, TRUE), h,
          includes, included, NoError)

\* lines 896-911: enter the block, or append the statement and its comments
Finish(F, stmt, term, coms, h, inc, incd) ==
  IF IsOpen(term)
  THEN Outcome("push", [F EXCEPT !.pend = stmt, !.kind = "block", !.coms = coms],
               Frame(enter_block_ctx(stmt, F.ctx), FALSE), h, inc, incd, NoError)
  ELSE Outcome("stay",
               [F EXCEPT !.parsed = Append(@, stmt) \o CommentStmts(coms, stmt.line)],
               F, h, inc, incd, NoError)

\* lines 862-894: the include statement
Include(F, stmt, term, coms) ==
  IF stmt.args = <<>> THEN Raise(F, IndexError)
  ELSE
    LET pattern == join(config_dir, stmt.args[1])
        magic == has_magic(pattern)
        openable == pattern \in fs
        fnames == IF magic THEN glob(pattern, fs)
                  ELSE IF openable THEN <<pattern>> ELSE <<>>
        e == OSError(pattern, stmt.line)
    IN
    IF ~magic /\ ~openable /\ ~opts.catch_errors THEN Raise(F, e)
    ELSE
      LET h == IF ~magic /\ ~openable THEN handle_error(parsing, payload, e)
               ELSE Unchanged
          reg == Register(fnames, includes, included, F.ctx)
          F2 == IF fnames = <<>> THEN F ELSE [F EXCEPT !.fname = fnames[Len(fnames)]]
      IN Finish(F2, stmt @@ ("includes" :> reg.idxs), term, coms, h,
                reg.includes, reg.included)

\* an include test that disregards single-file mode
expands_include_always(stmt) == stmt.directive = W("include")

\* line 862: `not single and stmt["directive"] == "include"`
expands_include(stmt) == ~opts.single /\ stmt.directive = W("include")

\* an ignore test that never holds
is_ignored_never(directive) == FALSE

\* line 825: `stmt["directive"] in ignore`
is_ignored(directive) == directive \in opts.ignore

\* lines 792-860: a statement in an activation that is not consuming
Statement(F, D, pex) ==
  LET first == D[1]
      directive == first.t
      base == IF opts.combine
              THEN [file |-> F.fname, directive |-> directive, line |-> first.line,
                    args |-> <<>>]
              ELSE [directive |-> directive, line |-> first.line, args |-> <<>>]
  IN
  IF IsComment(first)
  THEN IF opts.comments
       THEN Stay([F EXCEPT !.parsed =
                    Append(@, [base EXCEPT !.directive = W("#")]
                              @@ ("comment" :> Tail(directive)))], Unchanged)
       ELSE Stay(F, Unchanged)
  ELSE
    LET ra == ReadArgs(D, 2, <<>>, <<>>) IN
    IF ra.k = 0
    THEN Raise(F, IF pex.cls # "none" THEN pex ELSE StopIteration)
    ELSE
      LET term == D[ra.k]
          stmt0 == [base EXCEPT !.args = ra.args]
      IN
      IF is_ignored(stmt0.directive)
      THEN IF IsOpen(term) THEN PushConsume(F, Unchanged) ELSE Stay(F, Unchanged)
      ELSE
        LET stmt == IF directive = W("if")
                    THEN [stmt0 EXCEPT !.args = prepare_if_args(@)]
                    ELSE stmt0
            e == analyze(F.fname, stmt, term.t, F.ctx, opts.strict,
                         opts.check_ctx, opts.check_args)
        IN
        IF e.cls # "none"
        THEN IF opts.catch_errors
             THEN LET h == handle_error(parsing, payload, e) IN
                  IF not_terminated(e)
                  THEN IF term.t # RBRACE /\ ~term.q THEN PushConsume(F, h)
                       ELSE Pop(F, h)
                  ELSE Stay(F, h)
             ELSE Raise(F, e)
        ELSE IF expands_include(stmt)
        THEN Include(F, stmt, term, ra.coms)
        ELSE Finish(F, stmt, term, ra.coms, Unchanged, includes, included)

\* lines 778-790: the head of the loop
Iterate(F, D, pex) ==
  IF D = <<>>
  THEN IF pex.cls # "none" THEN Raise(F, pex) ELSE Pop(F, Unchanged)
  ELSE IF IsClose(D[1]) THEN Pop(F, Unchanged)
  ELSE IF F.consume
  THEN IF IsOpen(D[1]) THEN PushConsume(F, Unchanged) ELSE Stay(F, Unchanged)
  ELSE Statement(F, D, pex)

\* the caller of an activation that returned childParsed
Resume(P, childParsed) ==
  IF P.kind = "block"
  THEN [P EXCEPT !.parsed = Append(@, P.pend @@ ("block" :> childParsed))
                            \o CommentStmts(P.coms, P.pend.line),
                 !.pend = NoStmt, !.kind = "none", !.coms = <<>>]
  ELSE [P EXCEPT !.kind = "none"]

\* ------------------------------------------------- _combine_parsed_configs
\* _perform_includes(block), with onpath the worklist indices being inlined:
\* an index met again on its own path makes the generator recurse without end.
\* Returns [ok, out]; ok is FALSE when the recursion does not end.
RECURSIVE perform_includes(_, _, _)
RECURSIVE perform_indices(_, _, _)
perform_indices(idxs, old_configs, onpath) ==
  IF idxs = <<>> THEN [ok |-> TRUE, out |-> <<>>]
  ELSE IF idxs[1] \in onpath THEN [ok |-> FALSE, out |-> <<>>]
  ELSE
    LET a == perform_includes(old_configs[idxs[1] + 1].parsed, old_configs,
                              onpath \cup {idxs[1]})
        b == perform_indices(Tail(idxs), old_configs, onpath)
    IN [ok |-> a.ok /\ b.ok, out |-> a.out \o b.out]

perform_includes(block, old_configs, onpath) ==
  IF block = <<>> THEN [ok |-> TRUE, out |-> <<>>]
  ELSE
    LET stmt == block[1]
        inner == IF "block" \in DOMAIN stmt
                 THEN perform_includes(stmt.block, old_configs, onpath)
                 ELSE [ok |-> TRUE, out |-> <<>>]
        stmt1 == IF "block" \in DOMAIN stmt
                 THEN [stmt EXCEPT !.block = inner.out]
                 ELSE stmt
        here == IF "includes" \in DOMAIN stmt
                THEN perform_indices(stmt.includes, old_configs, onpath)
                ELSE [ok |-> TRUE, out |-> <<stmt1>>]
        rest == perform_includes(Tail(block), old_configs, onpath)
    IN [ok |-> inner.ok /\ here.ok /\ rest.ok, out |-> here.out \o rest.out]

RECURSIVE ConcatErrors(_)
ConcatErrors(configs) ==
  IF configs = <<>> THEN <<>>
  ELSE configs[1].errors \o ConcatErrors(Tail(configs))

\* a combine that drops the include nodes and inlines nothing
combine_parsed_configs_dropping(old_payload) ==
  LET old_configs == old_payload.config
      emptied == [i \in 1..Len(old_configs) |-> [old_configs[i] EXCEPT !.parsed = <<>>]]
      r == perform_includes(old_configs[1].parsed, emptied, {})
  IN [raised |-> NoError,
      value |-> [status |-> old_payload.status, errors |-> old_payload.errors,
                 config |-> <<[old_configs[1] EXCEPT !.parsed = r.out]>>]]

\* _combine_parsed_configs(old_payload): [raised, value]
combine_parsed_configs(old_payload) ==
  LET old_configs == old_payload.config
      r == perform_includes(old_configs[1].parsed, old_configs, {0})
      combined_config ==
        [file |-> old_configs[1].file,
         status |-> IF \E i \in 1..Len(old_configs) : old_configs[i].status = "failed"
                    THEN "failed" ELSE "ok",
         errors |-> ConcatErrors(old_configs),
         parsed |-> r.out]
  IN IF r.ok
     THEN [raised |-> NoError,
           value |-> [status |-> old_payload.status, errors |-> old_payload.errors,
                      config |-> <<combined_config>>]]
     ELSE [raised |-> RecursionError, value |-> old_payload]

\* -------------------------------------------- create_readable_nginx_config
\* The values of the readable map: None, a string, a list of strings, a
\* nested OrderedDict (a sequence of [key, val] with distinct keys, in
\* insertion order).
RNull == [kind |-> "null", v |-> <<>>]

RStr(x) == [kind |-> "str", v |-> x]

RList(xs) == [kind |-> "list", v |-> xs]

RMap(d) == [kind |-> "map", v |-> d]

\* " ".join(args)
RECURSIVE JoinArgs(_)
JoinArgs(args) ==
  IF args = <<>> THEN <<>>
  ELSE IF Len(args) = 1 THEN args[1]
  ELSE args[1] \o <<" ">> \o JoinArgs(Tail(args))

\* "{} {}".format(name, rest)
NameAnd(name, rest) == name \o <<" ">> \o rest

\* a key made of the name and the first argument only
readable_key_first_arg(name, args) ==
  IF args # <<>> /\ name \in {W("location"), W("if")}
  THEN NameAnd(name, args[1])
  ELSE name

\* lines 333-337: the identifying key
readable_key(name, args) ==
  IF args # <<>> /\ name \in {W("location"), W("if")}
  THEN NameAnd(name, JoinArgs(args))
  ELSE name

\* lines 371-377: the value of a simple directive
simple_value(args) ==
  IF Len(args) = 0 THEN RNull
  ELSE IF Len(args) = 1 THEN RStr(args[1])
  ELSE RList(args)

\* config[key] = val on an OrderedDict
DictSet(d, key, val) ==
  IF \E i \in 1..Len(d) : d[i].key = key
  THEN [i \in 1..Len(d) |-> IF d[i].key = key THEN [key |-> key, val |-> val] ELSE d[i]]
  ELSE Append(d, [key |-> key, val |-> val])

\* d.update(other)
RECURSIVE DictUpdate(_, _)
DictUpdate(d, other) ==
  IF other = <<>> THEN d
  ELSE DictUpdate(DictSet(d, other[1].key, other[1].val), Tail(other))

\* process_parsed_list(parsed_list, config_list), continuing with the map
\* config built so far; onpath holds the indices of the files being expanded:
\* an index met again on its own path makes the recursion endless.
\* Returns [ok, out]; ok is FALSE when the recursion does not end.
RECURSIVE process_parsed_list(_, _, _, _)
RECURSIVE expand_includes(_, _, _, _)
expand_includes(ids, config_list, onpath, expanded_content) ==
  IF ids = <<>> THEN [ok |-> TRUE, out |-> expanded_content]
  ELSE IF ids[1] >= Len(config_list)
  THEN expand_includes(Tail(ids), config_list, onpath, expanded_content)
  ELSE IF ids[1] \in onpath THEN [ok |-> FALSE, out |-> <<>>]
  ELSE
    LET r == process_parsed_list(config_list[ids[1] + 1].parsed, config_list,
                                 onpath \cup {ids[1]}, <<>>)
    IN IF ~r.ok THEN r
       ELSE expand_includes(Tail(ids), config_list, onpath,
                            DictUpdate(expanded_content, r.out))

process_parsed_list(parsed_list, config_list, onpath, config) ==
  IF parsed_list = <<>> THEN [ok |-> TRUE, out |-> config]
  ELSE
    LET directive == parsed_list[1]
        name == directive.directive
        args == directive.args
        key == readable_key(name, args)
    IN
    IF "block" \in DOMAIN directive /\ directive.block # <<>>
    THEN LET r == process_parsed_list(directive.block, config_list, onpath, <<>>)
         IN IF ~r.ok THEN r
            ELSE process_parsed_list(Tail(parsed_list), config_list, onpath,
                                     DictSet(config, key, RMap(r.out)))
    ELSE IF "includes" \in DOMAIN directive /\ directive.includes # <<>>
    THEN LET r == expand_includes(directive.includes, config_list, onpath, <<>>)
             key2 == IF args # <<>> THEN NameAnd(name, args[1]) ELSE key
         IN IF ~r.ok THEN r
            ELSE process_parsed_list(Tail(parsed_list), config_list, onpath,
                                     DictSet(config, key2, RMap(r.out)))
    ELSE process_parsed_list(Tail(parsed_list), config_list, onpath,
                             DictSet(config, key, simple_value(args)))

\* create_readable_nginx_config(result): [called, raised, value]
create_readable_nginx_config(res) ==
  IF res.status # "ok"
  THEN [called |-> TRUE, raised |-> NoError,
        value |-> [status |-> res.status, errors |-> res.errors,
                   message |-> "Parsing failed - see errors above"]]
  ELSE
    LET main_config == res.config[1]
        r == process_parsed_list(main_config.parsed, res.config, {0}, <<>>)
    IN IF ~r.ok
       THEN [called |-> TRUE, raised |-> RecursionError, value |-> <<>>]
       ELSE [called |-> TRUE, raised |-> NoError,
             value |-> [status |-> res.status, nginx |-> r.out,
                        info |-> [main_file |-> main_config.file,
                                  included_files |->
                                    [i \in 1..(Len(res.config) - 1) |-> res.config[i + 1].file],
                                  total_files_processed |-> Len(res.config),
                                  parsing_successful |-> TRUE]]]

\* ------------------------------------------------------------ token streams
U(s) == [t |-> W(s), q |-> FALSE]

Q(s) == [t |-> W(s), q |-> TRUE]

P(path) == [t |-> path, q |-> FALSE]

\* the include arguments of the files
IncludeArgs ==
  {<<"a.conf">>, FileA, <<"nginx.conf">>, <<"*.conf">>, <<"missing.conf">>}

\* complete statements: directive, arguments, terminator
Stmts(pr) ==
  CASE pr = "inc" ->
         {<<U("include"), P(a), U(";")>> : a \in IncludeArgs}
         \cup {<<U("http"), U("{")>>}
    [] pr = "err" ->
         {<<U("worker_processes"), U("4"), t>> : t \in {U(";"), U("{"), U("}")}}
         \cup {<<U("worker_processes"), U(";")>>}
         \cup {<<U("http"), U("{")>>, <<U("http"), U(";")>>,
               <<U("http"), U("4"), U("{")>>, <<U("server"), U("{")>>,
               <<U("foo"), U("{")>>, <<U("foo"), U(";")>>,
               <<U("include"), P(<<"a.conf">>), U(";")>>}
    [] pr = "brace" ->
         {<<U("http"), U("{")>>, <<U("{"), U(";")>>, <<U("foo"), Q("}"), U(";")>>,
          <<U("foo"), Q("{"), U("}")>>, <<Q("}"), U("{")>>}
    [] pr = "glob" ->
         {<<U("include"), P(a), U(";")>> :
             a \in {<<"*.none">>, <<"missing.conf">>, <<"a.conf">>}}
         \cup {<<U("worker_processes"), U("4"), U(";")>>}
    [] pr = "dir" ->
         {<<U("include"), P(a), U(";")>> :
             a \in {<<"sub", "c.conf">>, <<"d.conf">>, FileSubD}}
    [] pr = "single" ->
         {<<U("include"), P(a), U(";")>> :
             a \in {<<"a.conf">>, <<"*.conf">>, <<"missing.conf">>}}
         \cup {<<U("include"), U(";")>>,
               <<U("include"), P(<<"a.conf">>), P(<<"b.conf">>), U(";")>>,
               <<U("http"), U("{")>>}
    [] pr = "ign" ->
         {<<U("http"), U("{")>>, <<U("include"), P(<<"a.conf">>), U(";")>>,
          <<U("events"), U("{")>>, <<U("worker_processes"), U(";")>>,
          <<U("foo"), U(";")>>}
    [] pr = "sel" ->
         {<<U("http"), U("{")>>,
          <<U("location"), U("="), U("/x"), U("{")>>,
          <<U("if"), P(<<"(", "$x">>), U("="), P(<<"1", ")">>), U("{")>>,
          <<U("include"), P(<<"a.conf">>), U(";")>>,
          <<U("gzip"), U("on"), U(";")>>}
    [] pr = "sib" ->
         {<<U("http"), U("{")>>, <<U("server"), U("{")>>,
          <<U("listen"), U("80"), U(";")>>, <<U("listen"), U("81"), U(";")>>}
    [] pr = "com" ->
         {<<P(<<"#", "c">>)>>,
          <<U("worker_processes"), U("4"), U(";")>>,
          <<U("worker_processes"), P(<<"#", "c">>), U("4"), U(";")>>,
          <<U("events"), P(<<"#", "c">>), P(<<"#", "d">>), U("{")>>}
    [] pr = "comb" ->
         {<<U("include"), P(a), U(";")>> :
             a \in {<<"a.conf">>, <<"*.conf">>, <<"?.conf">>}}
         \cup {<<U("http"), U("{")>>, <<U("error_log"), U("x"), U(";")>>}

\* single tokens met at the start of a statement
Singles(pr) == {<<U("}")>>}

\* statements cut short by the end of the file
Cuts(pr) ==
  CASE pr = "inc" -> {}
    [] pr = "err" -> {<<U("foo")>>}
    [] pr = "brace" -> {<<U("foo"), Q("{")>>}
    [] OTHER -> {}

\* single tokens met while a block is consumed
ConsumeToks(pr) == {<<U("{")>>, <<U("}")>>, <<U("foo")>>, <<Q("}")>>}

EndOfFile == [toks |-> <<>>, eof |-> TRUE]

\* what the file may hold next, given what the parser is about to pull
Chunks(pr, consume) ==
  {EndOfFile} \cup
  IF consume
  THEN {[toks |-> c, eof |-> FALSE] : c \in ConsumeToks(pr)}
  ELSE {[toks |-> c, eof |-> FALSE] : c \in Stmts(pr) \cup Singles(pr)}
       \cup {[toks |-> c, eof |-> TRUE] : c \in Cuts(pr)}

\* ------------------------------------------------------------------ actions
Options(catch, strict, single, combine, comments, ignore) ==
  [catch_errors |-> catch, strict |-> strict, single |-> single,
   combine |-> combine, comments |-> comments, ignore |-> ignore,
   check_ctx |-> TRUE, check_args |-> TRUE]

StartParse(pr, o, files) ==
  /\ profile = pr
  /\ opts = o
  /\ fs = files
  /\ includes = <<[fname |-> RootFile, ctx |-> <<>>]>>
  /\ included = (RootFile :> 0)
  /\ payload = [status |-> "ok", errors |-> <<>>, config |-> <<>>]
  /\ idx = 0
  /\ pc = "loop"
  /\ parsing = [file |-> RootFile, status |-> "ok", errors |-> <<>>, parsed |-> <<>>]
  /\ stack = <<>>
  /\ stream = NewStream(RootFile)
  /\ exc = NoError
  /\ steps = 0
  /\ log = <<>>
  /\ result = [raised |-> NoError, value |-> payload]
  /\ readable = NotRead

Start(pr, o, files) ==
  /\ StartParse(pr, o, files)
  /\ source = <<>>
  /\ lexed = NotLexed
  /\ analysis = NotAnalyzed

\* lines 916-920: the outer loop takes the next worklist entry
NextFile ==
  /\ pc = "loop"
  /\ idx < Len(includes)
  /\ LET entry == includes[idx + 1]
         pg == [file |-> entry.fname, status |-> "ok", errors |-> <<>>, parsed |-> <<>>]
     IN /\ parsing' = pg
        /\ stream' = NewStream(entry.fname)
        /\ stack' = <<[ctx |-> entry.ctx, consume |-> FALSE, parsed |-> <<>>,
                       fname |-> entry.fname, pend |-> NoStmt, kind |-> "none",
                       coms |-> <<>>]>>
  /\ pc' = "parse"
  /\ UNCHANGED <<analysis, readable, source, lexed, opts, profile, fs, includes, included, payload, idx, exc, steps,
                 log, result>>

\* the number of statements the files of a family hold together, at most
StepBound(pr) == IF pr \in {"sel", "sib"} THEN MaxDeepSteps ELSE MaxSteps

\* lines 778-913: one iteration of the loop of the innermost _parse
ParseStep ==
  /\ pc = "parse"
  /\ LET n == Len(stack)
         F == stack[n]
         offered == IF steps >= StepBound(profile) \/ stream.st \in {"eof", "dead"}
                    THEN {EndOfFile}
                    ELSE Chunks(profile, F.consume)
     IN \E chunk \in offered :
        \E r \in {Pull(stream, chunk.toks, chunk.eof)} :
        \E o \in {Iterate(F, r.out, r.exc)} :
             /\ stream' = r.s
             /\ steps' = IF chunk.toks = <<>> THEN steps ELSE steps + 1
             /\ payload' = o.payload
             /\ includes' = o.includes
             /\ included' = o.included
             /\ exc' = o.exc
             /\ parsing' = IF o.act = "pop" /\ n = 1
                           THEN [o.parsing EXCEPT !.parsed = o.frame.parsed]
                           ELSE o.parsing
             /\ stack' = CASE o.act = "stay" -> [stack EXCEPT ![n] = o.frame]
                           [] o.act = "push" ->
                                Append([stack EXCEPT ![n] = o.frame], o.child)
                           [] o.act = "pop" ->
                                IF n = 1 THEN <<>>
                                ELSE Append(SubSeq(stack, 1, n - 2),
                                            Resume(stack[n - 1], o.frame.parsed))
                           [] o.act = "raise" -> <<>>
             /\ pc' = IF o.act = "raise" \/ (o.act = "pop" /\ n = 1)
                      THEN "end" ELSE "parse"
  /\ UNCHANGED <<analysis, readable, source, lexed, opts, profile, fs, idx, log, result>>

\* lines 921-925: the handler of the outer loop, and payload["config"].append
EndFile ==
  /\ pc = "end"
  /\ LET failed == [file |-> parsing.file, status |-> "failed", errors |-> <<>>,
                    parsed |-> <<>>]
         h == IF exc.cls = "none" THEN Unchanged
              ELSE handle_error(failed, payload, exc)
     IN payload' = [h.payload EXCEPT !.config = Append(@, h.parsing)]
  /\ log' = Append(log, [file |-> stream.file, st |-> stream.st,
                         seen |-> stream.seen, rest |-> stream.unread,
                         raised |-> exc])
  /\ idx' = idx + 1
  /\ exc' = NoError
  /\ pc' = "loop"
  /\ UNCHANGED <<analysis, readable, source, lexed, opts, profile, fs, includes, included, parsing, stack, stream,
                 steps, result>>

\* parse returning once the entries of the worklist as it was at the start
\* (the root alone) are parsed
Return_Snapshot ==
  /\ pc = "loop"
  /\ idx >= 1
  /\ result' = IF opts.combine THEN combine_parsed_configs(payload)
               ELSE [raised |-> NoError, value |-> payload]
  /\ pc' = "done"
  /\ UNCHANGED <<analysis, readable, source, lexed, opts, profile, fs, includes, included, payload, idx, parsing,
                 stack, stream, exc, steps, log>>

\* lines 927-930: the worklist is drained; parse returns
Return ==
  /\ pc = "loop"
  /\ idx >= Len(includes)
  /\ result' = IF opts.combine THEN combine_parsed_configs(payload)
               ELSE [raised |-> NoError, value |-> payload]
  /\ pc' = "done"
  /\ UNCHANGED <<analysis, readable, source, lexed, opts, profile, fs, includes, included, payload, idx, parsing,
                 stack, stream, exc, steps, log>>

\* lines 1017-1019 of main(): the readable format of what parse returned
MakeReadable ==
  /\ pc = "done"
  /\ result.raised = NoError
  /\ ~readable.called
  /\ readable' = create_readable_nginx_config(result.value)
  /\ UNCHANGED <<analysis, source, lexed, opts, profile, fs, includes, included, payload, idx,
                 pc, parsing, stack, stream, exc, steps, log, result>>

Next == NextFile \/ ParseStep \/ EndFile \/ Return

\* main(): parse, then the readable format
NextMain == NextFile \/ ParseStep \/ EndFile \/ Return \/ MakeReadable

AllFiles == {RootFile, FileA, FileB}

\* The runs checked: each family of token streams, strict or not where the
\* family holds unknown directives, the root file readable or missing.
Runs(catch) ==
  \E pr \in {"inc", "err", "brace"}, strict \in BOOLEAN, files \in {AllFiles, {FileA}} :
     /\ pr = "inc" => ~strict
     /\ Start(pr, Options(catch, strict, FALSE, FALSE, FALSE, {}), files)

\* recover mode: catch_errors=True, the default and what main() passes
Init == Runs(TRUE)

Spec == Init /\ [][Next]_vars

\* raise mode: catch_errors=False
InitRaise == Runs(FALSE)

SpecRaise == InitRaise /\ [][Next]_vars

\* runs over includes that match or open nothing
InitInclude == Start("glob", Options(TRUE, FALSE, FALSE, FALSE, FALSE, {}), AllFiles)

SpecInclude == InitInclude /\ [][Next]_vars

\* runs over files in two directories
InitDirs ==
  Start("dir", Options(TRUE, FALSE, FALSE, FALSE, FALSE, {}),
        {RootFile, FileSubC, FileSubD})

SpecDirs == InitDirs /\ [][Next]_vars

\* runs in single-file mode
InitSingle == Start("single", Options(TRUE, FALSE, TRUE, FALSE, FALSE, {}), AllFiles)

SpecSingle == InitSingle /\ [][Next]_vars

\* the directives ignored in the runs with an ignore set
Ignored == {W("http"), W("include")}

\* runs of main() with ignore_directives set, strict or not
InitIgnore ==
  \E strict \in BOOLEAN :
     Start("ign", Options(TRUE, strict, FALSE, FALSE, FALSE, Ignored), AllFiles)

SpecIgnore == InitIgnore /\ [][NextMain]_vars

\* runs of main() on files that nest location and if blocks
InitSelect == Start("sel", Options(TRUE, FALSE, FALSE, FALSE, FALSE, {}), {RootFile, FileA})

SpecSelect == InitSelect /\ [][NextMain]_vars

\* runs of main() on files that hold several servers or listens side by side
InitSiblings == Start("sib", Options(TRUE, FALSE, FALSE, FALSE, FALSE, {}), {RootFile})

SpecSiblings == InitSiblings /\ [][NextMain]_vars

\* runs on files that hold comments, with the comments option on or off
InitComments ==
  \E comments \in BOOLEAN :
     Start("com", Options(TRUE, FALSE, FALSE, FALSE, comments, {}), {RootFile})

SpecComments == InitComments /\ [][Next]_vars

\* runs with combine=True
InitCombine == Start("comb", Options(TRUE, FALSE, FALSE, TRUE, FALSE, {}), AllFiles)

SpecCombine == InitCombine /\ [][Next]_vars

\* the characters of the texts given to the lexer
Chars == {"a", " ", "\n", ";", "{", "}", "\"", "\\", "#", "$"}

Texts == UNION {[1..n -> Chars] : n \in 0..MaxChars}

\* list(lex(filename)) run on the text source
Lex ==
  /\ ~lexed.ran
  /\ \E r \in {lex(RootFile, source)} :
       lexed' = [ran |-> TRUE, tokens |-> r.tokens, exc |-> r.exc]
  /\ UNCHANGED <<analysis, readable, source, opts, profile, fs, includes, included,
                 payload, idx, pc, parsing, stack, stream, exc, steps, log,
                 result>>

\* the lexer alone, on every text of at most MaxChars characters
InitLex ==
  /\ StartParse("inc", Options(TRUE, FALSE, FALSE, FALSE, FALSE, {}), AllFiles)
  /\ source \in Texts
  /\ lexed = NotLexed
  /\ analysis = NotAnalyzed

SpecLex == InitLex /\ [][Lex]_vars

\* n arguments "x"
Repeated(n) == [i \in 1..n |-> W("x")]

\* the argument lists handed to analyze: every count up to MaxArgs, and the
\* single arguments a flag accepts
ArgLists == {Repeated(n) : n \in 0..MaxArgs} \cup {<<W("on")>>, <<W("OFF")>>}

\* analyze(fname, stmt, term, ctx, strict, check_ctx, check_args) as _parse
\* calls it (lines 837-845)
Analyze ==
  /\ ~analysis.called
  /\ "stmt" \in DOMAIN analysis
  /\ \E e \in {analyze(RootFile, analysis.stmt, analysis.term, analysis.ctx,
                        opts.strict, opts.check_ctx, opts.check_args)} :
       analysis' = [called |-> TRUE, stmt |-> analysis.stmt, term |-> analysis.term,
                    ctx |-> analysis.ctx, exc |-> e]
  /\ UNCHANGED <<readable, source, lexed, opts, profile, fs, includes, included,
                 payload, idx, pc, parsing, stack, stream, exc, steps, log,
                 result>>

\* analyze alone, on every directive of the table in every known context
InitAnalyze ==
  /\ StartParse("inc", Options(TRUE, FALSE, FALSE, FALSE, FALSE, {}), AllFiles)
  /\ source = <<>>
  /\ lexed = NotLexed
  /\ \E d \in DOMAIN DIRECTIVES, c \in DOMAIN CONTEXTS,
        t \in {LBRACE, SEMI, RBRACE}, a \in ArgLists :
        analysis = [called |-> FALSE,
                    stmt |-> [directive |-> d, line |-> 1, args |-> a],
                    term |-> t, ctx |-> c]

SpecAnalyze == InitAnalyze /\ [][Analyze]_vars

\* ------------------------------------------------------ reading the output
\* every node of a statement list, at any depth
RECURSIVE NodesOf(_)
NodesOf(block) ==
  IF block = <<>> THEN {}
  ELSE {block[1]}
       \cup (IF "block" \in DOMAIN block[1] THEN NodesOf(block[1].block) ELSE {})
       \cup NodesOf(Tail(block))

AllNodes(config) == UNION {NodesOf(config[i].parsed) : i \in 1..Len(config)}

IncludeNodes(config) == {n \in AllNodes(config) : "includes" \in DOMAIN n}

Range(seq) == {seq[i] : i \in 1..Len(seq)}

Done == pc = "done"

\* the tokens of the file of worklist entry i
Src(i) == log[i].seen \o log[i].rest

\* number of unquoted { minus number of unquoted } in a token list
RECURSIVE TextDepth(_)
TextDepth(toks) ==
  IF toks = <<>> THEN 0
  ELSE TextDepth(SubSeq(toks, 1, Len(toks) - 1))
       + (IF IsOpen(toks[Len(toks)]) THEN 1
          ELSE IF IsClose(toks[Len(toks)]) THEN -1 ELSE 0)

\* some unquoted { of the token list has no matching }
RECURSIVE OpenLeft(_, _, _)
OpenLeft(toks, k, d) ==
  IF k > Len(toks) THEN d
  ELSE OpenLeft(toks, k + 1,
                IF IsOpen(toks[k]) THEN d + 1
                ELSE IF IsClose(toks[k]) /\ d > 0 THEN d - 1 ELSE d)

HasUnmatchedOpen(toks) == OpenLeft(toks, 1, 0) > 0

\* every brace of the token list is matched
Balanced(toks) ==
  /\ TextDepth(toks) = 0
  /\ \A k \in 0..Len(toks) : TextDepth(SubSeq(toks, 1, k)) >= 0

\* index of the first unquoted terminator of toks at or after k; 0 if none
RECURSIVE TermAt(_, _)
TermAt(toks, k) ==
  IF k > Len(toks) THEN 0
  ELSE IF IsTerm(toks[k]) THEN k
  ELSE TermAt(toks, k + 1)

\* the directive names of the statements of a token list
RECURSIVE DirectivesOf(_, _)
DirectivesOf(toks, k) ==
  IF k > Len(toks) THEN {}
  ELSE IF IsClose(toks[k]) \/ IsComment(toks[k]) THEN DirectivesOf(toks, k + 1)
  ELSE LET j == TermAt(toks, k + 1)
       IN {toks[k].t} \cup (IF j = 0 THEN {} ELSE DirectivesOf(toks, j + 1))

\* The grammar table read as a grammar: the mask allows the statement in the
\* context bit, with this terminator and these arguments.
Conforms(mask, bit, term, args) ==
  /\ bit \in mask
  /\ IF NGX_CONF_BLOCK \in mask THEN term = LBRACE ELSE term = SEMI
  /\ \/ \E n \in 0..7 : n \in mask /\ Len(args) = n
     \/ NGX_CONF_FLAG \in mask /\ Len(args) = 1
        /\ args[1] \in {W("on"), W("off"), W("ON"), W("OFF"), W("On"), W("Off")}
     \/ NGX_CONF_ANY \in mask
     \/ NGX_CONF_1MORE \in mask /\ Len(args) >= 1
     \/ NGX_CONF_2MORE \in mask /\ Len(args) >= 2

\* The token list from index k on is a well-formed configuration text: every
\* statement is terminated, names a directive of the table and conforms to
\* it in the context of the block that holds it (ctxs, innermost last), every
\* literal include can be opened, and the braces are balanced.
RECURSIVE WellFormed(_, _, _)
WellFormed(toks, k, ctxs) ==
  IF k > Len(toks) THEN Len(ctxs) = 1
  ELSE IF IsClose(toks[k])
  THEN Len(ctxs) > 1 /\ WellFormed(toks, k + 1, SubSeq(ctxs, 1, Len(ctxs) - 1))
  ELSE IF IsComment(toks[k]) THEN WellFormed(toks, k + 1, ctxs)
  ELSE
    LET j == TermAt(toks, k + 1)
        ctx == ctxs[Len(ctxs)]
        directive == toks[k].t
        words == SelectSeq(SubSeq(toks, k + 1, j - 1), LAMBDA tok : ~IsComment(tok))
        given == [i \in 1..Len(words) |-> words[i].t]
        args == IF directive = W("if") THEN prepare_if_args(given) ELSE given
    IN /\ j # 0
       /\ directive \in DOMAIN DIRECTIVES
       /\ ctx \in DOMAIN CONTEXTS
       /\ \E m \in Range(DIRECTIVES[directive]) :
             Conforms(m, CONTEXTS[ctx], toks[j].t, args)
       /\ directive = W("include") =>
             (has_magic(join(config_dir, args[1])) \/ join(config_dir, args[1]) \in fs)
       /\ WellFormed(toks, j + 1,
                     IF IsOpen(toks[j])
                     THEN Append(ctxs, enter_block_ctx([directive |-> directive], ctx))
                     ELSE ctxs)

\* the (error, line) pairs of the payload errors of one file, in order
RECURSIVE ErrorsOfFile(_, _)
ErrorsOfFile(errors, file) ==
  IF errors = <<>> THEN <<>>
  ELSE (IF errors[1].file = file
        THEN <<[error |-> errors[1].error, line |-> errors[1].line]>>
        ELSE <<>>)
       \o ErrorsOfFile(Tail(errors), file)

\* ------------------------------------------------------------ the worklist
\* the paths the argument of an include directive resolves to
Resolved(arg) ==
  LET pattern == join(config_dir, arg)
  IN IF has_magic(pattern) THEN glob(pattern, fs)
     ELSE IF pattern \in fs THEN <<pattern>>
     ELSE <<>>

NoDuplicateEntry ==
  \A i, j \in 1..Len(includes) : includes[i].fname = includes[j].fname => i = j

OneResultPerPath ==
  Done =>
    LET config == result.value.config
    IN /\ \A i, j \in 1..Len(config) : config[i].file = config[j].file => i = j
       /\ \A n \in IncludeNodes(config) :
            /\ n.args # <<>>
            /\ Len(n.includes) = Len(Resolved(n.args[1]))
            /\ \A k \in 1..Len(n.includes) :
                 /\ n.includes[k] + 1 \in 1..Len(config)
                 /\ config[n.includes[k] + 1].file = Resolved(n.args[1])[k]

WorklistAppendOnly ==
  /\ Len(includes') >= Len(includes)
  /\ SubSeq(includes', 1, Len(includes)) = includes

\* C1: a path enters the worklist once, however many include directives
\* resolve to it: the worklist never holds a path twice and is only ever
\* appended to; in the output no two results are of the same file, and the
\* includes list of every include directive holds, for each path its
\* argument resolves to, the index of the one result of that path.
C1_AppendOnlyDedupe ==
  [](NoDuplicateEntry /\ OneResultPerPath) /\ [][WorklistAppendOnly]_vars

\* two include directives with different arguments hold the same index, and
\* some include directive holds the index of the root file
C1_Witness ==
  /\ Done
  /\ \E n1, n2 \in IncludeNodes(result.value.config) :
        /\ n1.args # n2.args
        /\ Len(n1.includes) = 1
        /\ n1.includes = n2.includes
  /\ \E n \in IncludeNodes(result.value.config) : 0 \in Range(n.includes)

\* C2: without combine, the config list has one result per worklist entry,
\* in the order of discovery: the root file is first, result i is of the
\* file the index map sends to i - 1, and every index an include directive
\* holds is a position of the list.
C2_ConfigInDiscoveryOrder ==
  (Done /\ ~opts.combine) =>
    LET config == result.value.config
    IN /\ Len(config) = Len(includes)
       /\ config[1].file = RootFile
       /\ \A i \in 1..Len(config) :
            /\ config[i].file = includes[i].fname
            /\ included[config[i].file] = i - 1
       /\ \A n \in IncludeNodes(config) :
            \A k \in 1..Len(n.includes) : n.includes[k] \in 0..(Len(config) - 1)

\* three files in the output, and one include directive holding two indices
C2_Witness ==
  /\ Done
  /\ ~opts.combine
  /\ Len(result.value.config) >= 3
  /\ \E n \in IncludeNodes(result.value.config) : Len(n.includes) >= 2

\* the work left: worklist entries not yet parsed, files not yet discovered,
\* statements not yet read, activations not yet returned
Variant ==
  (Len(includes) - idx + Cardinality(fs \ DOMAIN included)) * (2 * StepBound(profile) + 8)
  + 2 * (StepBound(profile) - steps) + Len(stack)
  + (CASE pc = "loop" -> 3 [] pc = "parse" -> 1 [] OTHER -> 0)

Drained ==
  Done => /\ idx = Len(includes)
          /\ Len(payload.config) = Len(includes)
          /\ \A i \in 1..Len(includes) : payload.config[i].file = includes[i].fname

\* C3: the loop over the worklist sees the entries added while it runs and
\* ends: every step lowers a measure that is never negative, parse cannot
\* stop before it returns, and when it returns every worklist entry, the
\* ones added during the run included, has been parsed exactly once.
C3_DrainsAndTerminates ==
  /\ [](Variant >= 0 /\ Drained /\ (~Done => ENABLED Next))
  /\ [][Variant' < Variant]_vars

\* a finished run over a cycle: a file included from the root includes the
\* root or itself
C3_Witness ==
  /\ Done
  /\ Len(payload.config) >= 2
  /\ \E i \in 2..Len(payload.config) :
        \E n \in IncludeNodes(<<payload.config[i]>>) :
           n.includes # <<>> /\ \A k \in 1..Len(n.includes) : n.includes[k] < i

\* --------------------------------------------------------- error handling
\* C4: in recover mode every error is in two lists at once: the errors of the
\* result of a file are exactly the payload errors of that file, in order.
\* The handler of the outer loop breaks this: it starts a fresh result for
\* the file, so errors recorded earlier in the file stay in the payload only.
C4_ErrorInBothLists ==
  (Done /\ opts.catch_errors) =>
    \A i \in 1..Len(payload.config) :
       payload.config[i].errors = ErrorsOfFile(payload.errors, payload.config[i].file)

\* the statement just read was rejected by analyze and ended with {
RejectedBlockOpener ==
  /\ pc = "parse"
  /\ opts.catch_errors
  /\ stream.passed # <<>>
  /\ IsOpen(stream.passed[Len(stream.passed)])
  /\ parsing.errors # <<>>
  /\ LET e == parsing.errors[Len(parsing.errors)]
     IN /\ e.line = stream.passed[Len(stream.passed)].line
        /\ e.error[1][1] \in {"unknown directive", "is not allowed here",
                              "has no opening", "is not terminated by",
                              "invalid value", "invalid number of arguments"}

\* C5: in recover mode, after a validation error on a statement that ends
\* with {, the parser is consuming the block that follows.  It does so only
\* for the error "is not terminated by": after any other validation error
\* the statements of the block are parsed as siblings of the rejected one.
C5_RejectedBlockConsumed ==
  RejectedBlockOpener => stack # <<>> /\ stack[Len(stack)].consume

\* an exception of the kind raise mode is to propagate: a validation error
\* of analyze, or an include that cannot be opened
Propagating(e) ==
  \/ IsDirectiveError(e)
  \/ e.cls = "OSError" /\ e.lineno # NoLine

\* C6: in raise mode a validation error or an include that cannot be opened
\* leaves parse as an exception: no run returns a payload after one was
\* raised.  The handler of the outer loop catches the re-raised exception,
\* records it and goes on to the next file.
C6_RaiseModePropagates ==
  (Done /\ ~opts.catch_errors) =>
    \A i \in 1..Len(log) : Propagating(log[i].raised) => result.raised = log[i].raised

\* C7: a root file that cannot be opened fails the run without an exception:
\* parse returns a payload with status failed, errors not empty, and one
\* result, of the root file, failed and with nothing parsed.
C7_UnreadableRootFails ==
  (Done /\ RootFile \notin fs) =>
    /\ result.raised = NoError
    /\ result.value.status = "failed"
    /\ result.value.errors # <<>>
    /\ Len(result.value.config) = 1
    /\ result.value.config[1].file = RootFile
    /\ result.value.config[1].status = "failed"
    /\ result.value.config[1].errors # <<>>
    /\ result.value.config[1].parsed = <<>>

\* a finished run whose root file was not there to open
C7_Witness ==
  /\ Done
  /\ RootFile \notin fs
  /\ log[1].raised.cls = "OSError"

\* ------------------------------------------------------ status of the run
RunOk ==
  /\ result.raised = NoError
  /\ result.value.status = "ok"
  /\ result.value.errors = <<>>

\* every file of the run is there, and its text is well formed in the
\* context it was included in
AllWellFormed ==
  /\ RootFile \in fs
  /\ \A i \in 1..Len(log) : WellFormed(Src(i), 1, <<includes[i].ctx>>)

\* every file of the run is there, its braces are balanced and its
\* directives are names of the grammar table
AllBalancedAndRecognized ==
  /\ RootFile \in fs
  /\ \A i \in 1..Len(log) :
        /\ Balanced(Src(i))
        /\ DirectivesOf(Src(i), 1) \subseteq DOMAIN DIRECTIVES

\* C8, as stated: a configuration whose braces are balanced and whose
\* directives are all names of the grammar table parses with status ok and
\* no error.  A known directive with the wrong number of arguments, in the
\* wrong context or with the wrong terminator has both and is rejected.
C8_BalancedRecognizedOk == (Done /\ AllBalancedAndRecognized) => RunOk

\* C8, amended: a configuration whose files are readable, whose braces are
\* balanced, whose statements are all terminated, name directives of the
\* grammar table and are used in a context, with a terminator and with
\* arguments the table allows, and whose literal includes can be opened,
\* parses with status ok and no error.
C8_WellFormedOk == (Done /\ AllWellFormed) => RunOk

\* a well-formed configuration with a statement inside a block
C8_Witness ==
  /\ Done
  /\ AllWellFormed
  /\ \E n \in AllNodes(result.value.config) : "block" \in DOMAIN n /\ n.block # <<>>

\* the result of file i holds the error msg at the given line
HasError(i, msg, line) ==
  /\ i \in 1..Len(payload.config)
  /\ payload.config[i].status = "failed"
  /\ payload.status = "failed"
  /\ \E k \in 1..Len(payload.config[i].errors) :
        /\ payload.config[i].errors[k].error[1][1] = msg
        /\ payload.config[i].errors[k].line = line

\* C9: a file in which an unquoted { has no matching } fails the run, with
\* an "unexpected end of file" error for that file at the line of the last
\* token the balancer saw.  The error is raised only when the token stream is
\* pulled to its end; an unquoted } met by the outermost activation ends the
\* parse of the file before that, and the unmatched { goes unreported.
C9_UnmatchedOpenReported ==
  Done =>
    \A i \in 1..Len(log) :
       HasUnmatchedOpen(Src(i)) =>
          HasError(i, "unexpected end of file, expecting",
                   log[i].seen[Len(log[i].seen)].line)

\* C10: the depth of the tokens passed on is never negative and counts
\* unquoted braces only; a token that is not passed on is an unquoted } met
\* at depth 0, it is the last token read, and the file ends up failed with an
\* "unexpected }" error at the line of that token.
C10_DepthNeverNegative ==
  /\ Len(stream.passed) <= Len(stream.seen)
  /\ stream.passed = SubSeq(stream.seen, 1, Len(stream.passed))
  /\ \A k \in 0..Len(stream.passed) : TextDepth(SubSeq(stream.passed, 1, k)) >= 0
  /\ stream.depth = TextDepth(stream.seen)
  /\ Len(stream.seen) > Len(stream.passed) =>
        /\ Len(stream.seen) = Len(stream.passed) + 1
        /\ IsClose(stream.seen[Len(stream.seen)])
        /\ TextDepth(stream.passed) = 0
        /\ pc \in {"loop", "done"} =>
              /\ payload.config[idx].file = stream.file
              /\ HasError(idx, "unexpected", stream.seen[Len(stream.seen)].line)

\* a file with a quoted brace among its tokens ended at a stray }
C10_Witness ==
  /\ Done
  /\ Len(stream.seen) > Len(stream.passed)
  /\ \E k \in 1..Len(stream.passed) :
        stream.passed[k].q /\ stream.passed[k].t \in {LBRACE, RBRACE}

\* ------------------------------------------------------- option handling
\* the tokens the step pulled from the stream
StepToks == SubSeq(stream'.passed, Len(stream.passed) + 1, Len(stream'.passed))

\* the innermost activation
Top == stack[Len(stack)]

\* every key of a readable map, at any depth
RECURSIVE KeysOf(_)
KeysOf(d) ==
  IF d = <<>> THEN {}
  ELSE {d[1].key}
       \cup (IF d[1].val.kind = "map" THEN KeysOf(d[1].val.v) ELSE {})
       \cup KeysOf(Tail(d))

ReadableOk == readable.called /\ readable.raised = NoError /\ readable.value.status = "ok"

NoIgnoredNode ==
  /\ Done => \A n \in AllNodes(result.value.config) : n.directive \notin opts.ignore
  /\ ReadableOk => \A k \in KeysOf(readable.value.nginx) : <<k[1]>> \notin opts.ignore

\* the step leaves the parser as deep in blocks, relative to the text it has
\* been given, as it was
DepthKept ==
  pc' = "parse" =>
     Len(stack') - TextDepth(stream'.passed) = Len(stack) - TextDepth(stream.passed)

\* a step that reads a statement with an ignored name records nothing and
\* expands nothing, and turns to consuming when the statement opens a block;
\* a step that consumes records nothing; both follow the braces of the text
IgnoredSkipped ==
  (pc = "parse" /\ StepToks # <<>>) =>
     /\ (Top.consume \/ StepToks[1].t \in opts.ignore) => DepthKept
     /\ (~Top.consume /\ StepToks[1].t \in opts.ignore) =>
           /\ payload' = payload
           /\ includes' = includes
           /\ exc' = NoError
           /\ IF IsOpen(StepToks[Len(StepToks)])
              THEN /\ Len(stack') = Len(stack) + 1
                   /\ stack'[Len(stack')].consume
                   /\ stack'[Len(stack)].parsed = Top.parsed
              ELSE stack' = stack
     /\ Top.consume => payload' = payload /\ includes' = includes

\* C11: a statement whose directive is in the ignore set leaves no node in
\* any parsed tree and no key in the readable map; reading it records no
\* error and adds no worklist entry (an ignored include is not expanded); if
\* it opens a block the parser consumes the tokens up to the matching },
\* following the braces of the text, and nothing read on the way records an
\* error, in strict mode too.
C11_IgnoredNeverAppears ==
  []NoIgnoredNode /\ [][IgnoredSkipped]_vars

\* a strict run that skipped an ignored block with an unknown directive
\* inside and an ignored include, without any error, and gave a readable map
C11_Witness ==
  /\ ReadableOk
  /\ opts.strict
  /\ opts.ignore # {}
  /\ payload.errors = <<>>
  /\ \E i, j, k \in 1..Len(log[1].seen) :
        /\ i < j /\ j < k
        /\ log[1].seen[i].t = W("http")
        /\ log[1].seen[j].t = W("foo")
        /\ log[1].seen[k].t = W("include")

\* the step read a whole statement, out of a consumed block, whose name is
\* neither ignored nor in the grammar table
UnknownStatementRead ==
  /\ pc = "parse"
  /\ Len(StepToks) >= 2
  /\ ~Top.consume
  /\ ~IsClose(StepToks[1])
  /\ ~IsComment(StepToks[1])
  /\ IsTerm(StepToks[Len(StepToks)])
  /\ StepToks[1].t \notin DOMAIN DIRECTIVES
  /\ StepToks[1].t \notin opts.ignore

\* the node of the statement the step read
StepNode ==
  [directive |-> StepToks[1].t, line |-> StepToks[1].line,
   args |-> [i \in 1..(Len(StepToks) - 2) |-> StepToks[i + 1].t]]

UnknownHandled ==
  UnknownStatementRead =>
    IF opts.strict
    THEN /\ Len(payload'.errors) = Len(payload.errors) + 1
         /\ LET e == payload'.errors[Len(payload'.errors)]
            IN /\ e.error[1] = <<"unknown directive", StepToks[1].t>>
               /\ e.line = StepToks[1].line
               /\ e.file = parsing.file
    ELSE /\ payload' = payload
         /\ exc' = NoError
         /\ IF IsOpen(StepToks[Len(StepToks)])
            THEN /\ Len(stack') = Len(stack) + 1
                 /\ stack'[Len(stack)].pend = StepNode
                 /\ stack'[Len(stack)].kind = "block"
            ELSE /\ Len(stack') = Len(stack)
                 /\ stack'[Len(stack)].parsed = Append(Top.parsed, StepNode)

\* C12: a statement the parser reads whose directive is neither ignored nor
\* in the grammar table gets, in strict mode, an "unknown directive" error at
\* its line, whatever the context; without strict mode it gets no error of
\* any kind and its node goes into the tree, as the statement of a block when
\* it ends with {.
C12_StrictUnknownDirective == [][UnknownHandled]_vars

\* a strict run that met an unknown directive inside an http block
C12_Witness ==
  /\ Done
  /\ opts.strict
  /\ log[1].seen # <<>>
  /\ log[1].seen[1].t = W("http")
  /\ \E k \in 1..Len(payload.errors) :
        /\ payload.errors[k].error[1][1] = "unknown directive"
        /\ payload.errors[k].line >= 2

\* ------------------------------------------------------------- includes
\* the step read the statement "include arg ;" outside a consumed block
IncludeRead(arg) ==
  /\ pc = "parse"
  /\ ~Top.consume
  /\ Len(StepToks) = 3
  /\ StepToks[1].t = W("include")
  /\ StepToks[2].t = arg
  /\ StepToks[3].t = SEMI /\ ~StepToks[3].q

\* the step went on to the next statement of the same activation, having
\* appended the include node with nothing expanded
IncludeNodeEmpty ==
  /\ pc' = "parse"
  /\ exc' = NoError
  /\ Len(stack') = Len(stack)
  /\ stack'[Len(stack)].parsed = Append(Top.parsed, StepNode @@ ("includes" :> <<>>))

NothingIncluded ==
  /\ IncludeRead(<<"*.none">>) =>
        /\ includes' = includes
        /\ payload' = payload
        /\ IncludeNodeEmpty
  /\ IncludeRead(<<"missing.conf">>) =>
        /\ includes' = includes
        /\ Len(payload'.errors) = Len(payload.errors) + 1
        /\ LET e == payload'.errors[Len(payload'.errors)]
           IN /\ e.error[1] = <<"No such file or directory",
                                join(config_dir, <<"missing.conf">>)>>
              /\ e.line = StepToks[1].line
              /\ e.file = parsing.file
        /\ IncludeNodeEmpty

\* number of tokens of a list that satisfy Test
Count(toks, Test(_)) == Cardinality({k \in 1..Len(toks) : Test(toks[k])})

IsSemi(tok) == tok.t = SEMI /\ ~tok.q

IsMissing(tok) == tok.t = <<"missing.conf">>

\* at the end no result is of a path that opens nothing, and a file without
\* a stray } has one node per statement and one error per include that
\* could not be opened
RestStillParsed ==
  Done =>
    \A i \in 1..Len(payload.config) :
       /\ payload.config[i].file \in fs
       /\ Count(Src(i), IsClose) = 0 =>
             /\ Len(payload.config[i].parsed) = Count(Src(i), IsSemi)
             /\ Len(payload.config[i].errors) = Count(Src(i), IsMissing)

\* C13: an include with a glob pattern that matches no file adds no worklist
\* entry and records no error; an include of a literal path that cannot be
\* opened records exactly one error, at its line, and adds no worklist entry,
\* so no result; in both cases the include node is appended with nothing
\* expanded and the statements that follow in the file are parsed.
C13_EmptyGlobMissingLiteral ==
  []RestStillParsed /\ [][NothingIncluded]_vars

\* a run whose root holds an include that cannot be opened, then a glob that
\* matches nothing, then an ordinary statement, all three in the tree
C13_Witness ==
  /\ Done
  /\ Len(payload.config) = 1
  /\ Len(payload.errors) = 1
  /\ Len(payload.config[1].parsed) = 3
  /\ payload.config[1].parsed[1].args = <<<<"missing.conf">>>>
  /\ payload.config[1].parsed[2].args = <<<<"*.none">>>>
  /\ payload.config[1].parsed[3].directive = W("worker_processes")

\* the path a literal include argument names in the file that holds it
PathFrom(file, arg) == IF isabs(arg) THEN arg ELSE dirname(file) \o arg

\* C14: a relative include argument is resolved against the directory of
\* the file that holds the directive, an absolute one is used as it is: the
\* node of a literal include holds the index of that path when it can be
\* opened and nothing otherwise.  The parser joins every relative argument
\* to the directory of the root file, whichever file holds the directive.
C14_RelativeToContainingFile ==
  Done =>
    \A i \in 1..Len(payload.config) :
       \A n \in IncludeNodes(<<payload.config[i]>>) :
          LET target == PathFrom(payload.config[i].file, n.args[1])
          IN IF target \in fs
             THEN target \in DOMAIN included /\ n.includes = <<included[target]>>
             ELSE n.includes = <<>>

\* the context the file being parsed was enqueued with
EnqueuedCtx == includes[idx + 1].ctx

\* the outermost activation of a file runs in the context of its entry
CtxCarried == pc = "parse" => stack[1].ctx = EnqueuedCtx

\* entries are enqueued with the context of the activation that reads the
\* include directive, and an entry is never changed afterwards
CtxRegistered ==
  /\ SubSeq(includes', 1, Len(includes)) = includes
  /\ \A i \in (Len(includes) + 1)..Len(includes') :
        pc = "parse" /\ includes'[i].ctx = Top.ctx

\* the step recorded an error of analyze
ValidationErrorAdded ==
  /\ Len(payload'.errors) = Len(payload.errors) + 1
  /\ payload'.errors[Len(payload'.errors)].error[1][1] \in
        {"unknown directive", "is not allowed here", "has no opening",
         "is not terminated by", "invalid value", "invalid number of arguments"}

\* a top-level statement of the file, with a directive of the table, is
\* rejected exactly when the table does not allow it in the enqueued context
TopLevelValidated ==
  (/\ pc = "parse"
   /\ Len(stack) = 1
   /\ Len(StepToks) >= 2
   /\ ~IsClose(StepToks[1])
   /\ ~IsComment(StepToks[1])
   /\ IsTerm(StepToks[Len(StepToks)])
   /\ StepToks[1].t \in DOMAIN DIRECTIVES
   /\ StepToks[1].t \notin opts.ignore
   /\ EnqueuedCtx \in DOMAIN CONTEXTS) =>
     (ValidationErrorAdded <=>
        ~\E m \in Range(DIRECTIVES[StepToks[1].t]) :
            Conforms(m, CONTEXTS[EnqueuedCtx], StepToks[Len(StepToks)].t,
                     StepNode.args))

\* C15: a file is enqueued with the context of the activation that read the
\* include directive which enqueued it, later includes of the file leave
\* the entry as it is, and the top-level statements of the file are
\* validated in that context.
C15_IncludedFileContext ==
  []CtxCarried /\ [][CtxRegistered /\ TopLevelValidated]_vars

\* a file included inside an http block whose own top-level http statement
\* was rejected as not allowed there
C15_Witness ==
  /\ Done
  /\ Len(payload.config) >= 2
  /\ includes[2].ctx = <<W("http")>>
  /\ Len(log[2].seen) >= 2
  /\ log[2].seen[1].t = W("http")
  /\ IsOpen(log[2].seen[2])
  /\ \E k \in 1..Len(payload.errors) :
        /\ payload.errors[k].file = includes[2].fname
        /\ payload.errors[k].error[1] = <<"is not allowed here", W("http")>>
        /\ payload.errors[k].line = 1

\* the worklist is the root alone, the root is the only file opened and the
\* only result, no node has an includes key and no error is about a file
\* that could not be opened
RootOnly ==
  /\ Len(includes) = 1
  /\ DOMAIN included = {RootFile}
  /\ stream.file = RootFile
  /\ \A k \in 1..Len(payload.errors) :
        payload.errors[k].error[1][1] # "No such file or directory"
  /\ Done =>
        /\ Len(result.value.config) = 1
        /\ Len(log) = 1
        /\ log[1].file = RootFile
        /\ IncludeNodes(result.value.config) = {}

\* an include statement is validated like any statement of the table, and
\* when it passes its node is the plain statement node
IncludeAsOrdinary ==
  (/\ pc = "parse"
   /\ ~Top.consume
   /\ Len(StepToks) >= 2
   /\ StepToks[1].t = W("include")
   /\ StepToks[Len(StepToks)].t = SEMI /\ ~StepToks[Len(StepToks)].q
   /\ Top.ctx \in DOMAIN CONTEXTS) =>
     IF \E m \in Range(DIRECTIVES[W("include")]) :
           Conforms(m, CONTEXTS[Top.ctx], SEMI, StepNode.args)
     THEN /\ payload' = payload
          /\ exc' = NoError
          /\ Len(stack') = Len(stack)
          /\ stack'[Len(stack)].parsed = Append(Top.parsed, StepNode)
     ELSE /\ ValidationErrorAdded
          /\ Len(stack') = Len(stack)
          /\ stack'[Len(stack)].parsed = Top.parsed

\* C16: in single-file mode the worklist stays the root alone, the only
\* result and the only file opened is the root, no node has an includes key
\* and no error about an unopenable include is recorded; an include
\* statement is validated against the grammar table and emitted like any
\* other statement.
C16_SingleFileMode == []RootOnly /\ [][IncludeAsOrdinary]_vars

\* a single-file run with no error whose tree holds an include of a file
\* that exists and an include of a file that does not
C16_Witness ==
  /\ Done
  /\ opts.single
  /\ payload.errors = <<>>
  /\ \E n1, n2 \in AllNodes(result.value.config) :
        /\ n1.directive = W("include") /\ n1.args = <<<<"a.conf">>>>
        /\ n2.directive = W("include") /\ n2.args = <<<<"missing.conf">>>>


\* the text ends with a backslash that has no character left to escape
RECURSIVE TrailingBackslash(_)
TrailingBackslash(chars) ==
  IF chars = <<>> THEN FALSE
  ELSE IF chars[1] = "\\"
  THEN Len(chars) = 1 \/ TrailingBackslash(SubSeq(chars, 3, Len(chars)))
  ELSE TrailingBackslash(Tail(chars))

\* the k-th character opens a quoted string that the text never closes: it
\* starts a token outside any comment, escape or expansion, and neither a
\* quote nor a backslash follows it
OpensQuoteAt(chars, k) ==
  /\ chars[k] = "\""
  /\ k = 1 \/ chars[k - 1] \in {" ", "\n", ";", "{", "}"}
  /\ \A j \in 1..(k - 1) : chars[j] \notin {"\"", "\\", "#", "$"}
  /\ \A j \in (k + 1)..Len(chars) : chars[j] \notin {"\"", "\\"}

UnterminatedQuote(chars) == \E k \in 1..Len(chars) : OpensQuoteAt(chars, k)

\* C17: when the text ends inside an escape (a trailing backslash) or inside
\* a quoted string that is never closed, the lexer raises a syntax error to
\* its caller instead of ending the token stream silently.
C17_TruncatedInputSurfaces ==
  lexed.ran /\ (TrailingBackslash(source) \/ UnterminatedQuote(source))
    => lexed.exc.cls = "NgxParserSyntaxError"

\* The statement list block with every node that carries `includes` replaced,
\* where it stands, by the statement lists of the files it refers to, in
\* index order and to n levels of nesting of files.
RECURSIVE Inlined(_, _, _)
RECURSIVE InlinedFiles(_, _, _)
InlinedFiles(idxs, configs, n) ==
  IF idxs = <<>> \/ n = 0 THEN <<>>
  ELSE Inlined(configs[idxs[1] + 1].parsed, configs, n - 1)
       \o InlinedFiles(Tail(idxs), configs, n)

Inlined(block, configs, n) ==
  IF block = <<>> THEN <<>>
  ELSE LET stmt == block[1]
       IN (IF "includes" \in DOMAIN stmt
           THEN InlinedFiles(stmt.includes, configs, n)
           ELSE IF "block" \in DOMAIN stmt
           THEN <<[stmt EXCEPT !.block = Inlined(@, configs, n)]>>
           ELSE <<stmt>>)
          \o Inlined(Tail(block), configs, n)

\* parse() has returned a combined payload
Combined == Done /\ opts.combine /\ result.raised = NoError

\* the include nodes of the files as parsed that refer to the worklist index i
RefsTo(i) ==
  {<<f, n>> \in (1..Len(payload.config)) \X AllNodes(payload.config) :
      /\ n \in NodesOf(payload.config[f].parsed)
      /\ "includes" \in DOMAIN n
      /\ \E k \in 1..Len(n.includes) : n.includes[k] = i}

\* C18: when combine returns, the result has exactly one config entry; its
\* tree is the root file's tree with every node that carries `includes`, at
\* top level or inside a block, replaced where it stands and in index order
\* by the statement lists of the files it refers to, recursively; no node of
\* the tree has an `includes` key.
C18_CombineInlines ==
  Combined =>
    /\ Len(result.value.config) = 1
    /\ result.value.config[1].parsed =
         Inlined(payload.config[1].parsed, payload.config, Len(payload.config))
    /\ \A n \in NodesOf(result.value.config[1].parsed) : "includes" \notin DOMAIN n

\* a file with a statement of its own, referred to by two include nodes,
\* stands at both places of the combined tree
C18_Witness ==
  /\ Combined
  /\ Len(payload.config) >= 2
  /\ Cardinality(RefsTo(1)) = 2
  /\ LET tree == result.value.config[1].parsed
     IN \E i, j \in 1..Len(tree) :
          /\ i < j
          /\ tree[i].file = FileA /\ tree[i].directive = W("error_log")
          /\ tree[j].file = FileA /\ tree[j].directive = W("error_log")

\* an include node inside a block is replaced there by the file's statements
C18_WitnessNested ==
  /\ Combined
  /\ \E n \in NodesOf(payload.config[1].parsed) :
        /\ "block" \in DOMAIN n
        /\ \E k \in 1..Len(n.block) : "includes" \in DOMAIN n.block[k] /\ n.block[k].includes = <<1>>
  /\ \E n \in NodesOf(result.value.config[1].parsed) :
        /\ "block" \in DOMAIN n /\ n.file = RootFile
        /\ n.block # <<>> /\ n.block[1].file = FileA

\* a node that refers to two files is replaced by the statements of the first
\* file followed by those of the second
C18_WitnessOrder ==
  /\ Combined
  /\ \E n \in NodesOf(payload.config[1].parsed) :
        "includes" \in DOMAIN n /\ n.includes = <<1, 2>>
  /\ LET tree == result.value.config[1].parsed
     IN \E i \in 1..(Len(tree) - 1) :
          tree[i].file = FileA /\ tree[i + 1].file = FileB

\* the arguments of a directive that has some, separated by single spaces
RECURSIVE Spaced(_)
Spaced(args) ==
  IF Len(args) = 1 THEN args[1]
  ELSE args[1] \o <<" ">> \o Spaced(Tail(args))

\* the node has a block with statements in it
HasChildren(n) == "block" \in DOMAIN n /\ n.block # <<>>

\* the node is an include directive that brought files in
Expanded(n) == ~HasChildren(n) /\ "includes" \in DOMAIN n /\ n.includes # <<>>

\* "name firstArg" for a location or if with arguments, the name otherwise
FirstArgKey(n) ==
  IF n.args # <<>> /\ n.directive \in {W("location"), W("if")}
  THEN n.directive \o <<" ">> \o n.args[1]
  ELSE n.directive

\* the name and all the arguments for a location or if with arguments,
\* "name firstArg" for an include that brought files in, the name otherwise
SelectorKey(n) ==
  IF n.args # <<>> /\ n.directive \in {W("location"), W("if")}
  THEN n.directive \o <<" ">> \o Spaced(n.args)
  ELSE IF Expanded(n) /\ n.args # <<>>
  THEN n.directive \o <<" ">> \o n.args[1]
  ELSE n.directive

KeyOf(n, firstOnly) == IF firstOnly THEN FirstArgKey(n) ELSE SelectorKey(n)

\* The keys of the map are the keys of the statements of the list, and so on
\* in the map of every block (of the last statement, where several have one
\* key); the map of an include holds the keys of the files' statements.
RECURSIVE KeyedBy(_, _, _)
KeyedBy(block, map, firstOnly) ==
  /\ {map[i].key : i \in 1..Len(map)} = {KeyOf(block[i], firstOnly) : i \in 1..Len(block)}
  /\ \A i \in 1..Len(block) : \A e \in Range(map) :
       (/\ e.key = KeyOf(block[i], firstOnly)
        /\ \A j \in (i + 1)..Len(block) :
             KeyOf(block[j], firstOnly) # KeyOf(block[i], firstOnly))
       => /\ HasChildren(block[i]) =>
               e.val.kind = "map" /\ KeyedBy(block[i].block, e.val.v, firstOnly)
          /\ Expanded(block[i]) =>
               /\ e.val.kind = "map"
               /\ {e.val.v[k].key : k \in 1..Len(e.val.v)} =
                    UNION {{KeyOf(n, firstOnly) :
                              n \in Range(result.value.config[block[i].includes[k] + 1].parsed)} :
                           k \in 1..Len(block[i].includes)}

C19_WitnessInclude ==
  /\ ReadableOk
  /\ <<"include", " ", "a.conf">> \in KeysOf(readable.value.nginx)
  /\ <<"gzip">> \in KeysOf(readable.value.nginx)

\* The values of the map are those of the statements of the list (of the last
\* statement, where several have one key): a nested map built from the
\* children for a statement with a block, and for one without block or
\* expanded include null, the argument, or the list of the arguments.
RECURSIVE ValuedBy(_, _)
ValuedBy(block, map) ==
  /\ {map[i].key : i \in 1..Len(map)} = {SelectorKey(block[i]) : i \in 1..Len(block)}
  /\ \A i \in 1..Len(block) : \A e \in Range(map) :
       (/\ e.key = SelectorKey(block[i])
        /\ \A j \in (i + 1)..Len(block) : SelectorKey(block[j]) # SelectorKey(block[i]))
       => IF "block" \in DOMAIN block[i]
          THEN e.val.kind = "map" /\ ValuedBy(block[i].block, e.val.v)
          ELSE IF Expanded(block[i]) THEN e.val.kind = "map"
          ELSE CASE Len(block[i].args) = 0 -> e.val = [kind |-> "null", v |-> <<>>]
                 [] Len(block[i].args) = 1 ->
                      e.val = [kind |-> "str", v |-> block[i].args[1]]
                 [] OTHER -> e.val = [kind |-> "list", v |-> block[i].args]

\* C20: in the readable map every directive that has a block maps to a nested
\* map built from its children, an empty block giving an empty map, and a
\* directive without block or expanded include maps to null for no argument,
\* to the argument for one, and to the list of the arguments for two or more.
C20_BlockMapsToNestedMap ==
  ReadableOk => ValuedBy(result.value.config[1].parsed, readable.value.nginx)

\* the statements of the list that have the key k
WithKey(block, k) == {i \in 1..Len(block) : SelectorKey(block[i]) = k}

\* Where several statements of a list have one key, the map holds a list with
\* one entry for each of them under that key; and so on in the map of the
\* block of a statement that has its key alone.
RECURSIVE SiblingsKept(_, _)
SiblingsKept(block, map) ==
  \A e \in Range(map) :
    IF Cardinality(WithKey(block, e.key)) >= 2
    THEN e.val.kind = "list" /\ Len(e.val.v) = Cardinality(WithKey(block, e.key))
    ELSE \A i \in WithKey(block, e.key) :
           HasChildren(block[i]) =>
             e.val.kind = "map" /\ SiblingsKept(block[i].block, e.val.v)

\* C21: in the readable format sibling statements that share a key are all
\* kept: several blocks of one directive in one parent (the servers of an
\* http block) are all in the output, as a list under the directive's key.
C21_SiblingsKeptAsList ==
  ReadableOk => SiblingsKept(result.value.config[1].parsed, readable.value.nginx)

\* the comment nodes of the output
CommentNodes == {n \in AllNodes(result.value.config) : n.directive = W("#")}

\* the comment tokens of the file of worklist entry i
CommentToks(i) == {tok \in Range(Src(i)) : IsComment(tok)}

\* C22 (option off): with the comments option false no comment node is
\* anywhere in any file's parsed output, wherever the comment stood in the
\* source: on its own line, after a statement or between the arguments of one.
C22_NoCommentNodeWhenOff ==
  (Done /\ ~opts.comments) => CommentNodes = {}

\* C22 (option on): with the comments option true each comment of a file
\* parsed without error is a node carrying its text and its line.
C22_CommentNodesWhenOn ==
  (Done /\ opts.comments) =>
     \A i \in 1..Len(result.value.config) :
        result.value.config[i].status = "ok" =>
          \A tok \in CommentToks(i) :
             \E n \in NodesOf(result.value.config[i].parsed) :
                n.directive = W("#") /\ n.comment = Tail(tok.t) /\ n.line = tok.line

\* the masks of the directive handed to analyze that its context allows
AllowedMasks ==
  SelectSeq(DIRECTIVES[analysis.stmt.directive],
            LAMBDA m : CONTEXTS[analysis.ctx] \in m)

\* the mask agrees with the terminator and with the number of arguments
Agrees(mask, term, args) ==
  /\ IF NGX_CONF_BLOCK \in mask THEN term = LBRACE ELSE term = SEMI
  /\ \/ Len(args) <= 7 /\ Len(args) \in mask
     \/ /\ NGX_CONF_FLAG \in mask
        /\ Len(args) = 1
        /\ Len(args[1]) = 1 /\ LowerPiece(args[1][1]) \in {"on", "off"}
     \/ NGX_CONF_ANY \in mask
     \/ NGX_CONF_1MORE \in mask /\ Len(args) >= 1
     \/ NGX_CONF_2MORE \in mask /\ Len(args) >= 2

\* the message a mask that does not agree sets
MessageOf(mask, term, args) ==
  IF NGX_CONF_BLOCK \in mask /\ term # LBRACE THEN "has no opening"
  ELSE IF NGX_CONF_BLOCK \notin mask /\ term # SEMI THEN "is not terminated by"
  ELSE IF /\ NGX_CONF_FLAG \in mask
          /\ Len(args) = 1
          /\ ~(Len(args[1]) = 1 /\ LowerPiece(args[1][1]) \in {"on", "off"})
  THEN "invalid value"
  ELSE "invalid number of arguments"

\* C23: for a directive of the grammar table in a known context that allows
\* some mask of it, analyze accepts the statement iff some allowed mask agrees
\* with the terminator ({ for a block mask, ; otherwise) and with the number
\* of arguments (the exact-count bit of a count up to 7, a flag mask with one
\* on/off argument in any case, any, at least 1, at least 2); otherwise it
\* raises an arguments error with the message of the mask the reverse scan
\* examines last, the first of the list.
C23_AnalyzeArity ==
  (analysis.called /\ AllowedMasks # <<>>) =>
     IF \E k \in 1..Len(AllowedMasks) :
           Agrees(AllowedMasks[k], analysis.term, analysis.stmt.args)
     THEN analysis.exc = NoError
     ELSE /\ analysis.exc.cls = "NgxParserDirectiveArgumentsError"
          /\ analysis.exc.strerror[1] =
               MessageOf(AllowedMasks[1], analysis.term, analysis.stmt.args)

\* a block directive given 8 arguments and its {: the bit that 8 selects is
\* the block bit, and the statement is rejected for its number of arguments
C23_Witness ==
  /\ analysis.called
  /\ AllowedMasks # <<>>
  /\ Len(analysis.stmt.args) = 8
  /\ NGX_CONF_BLOCK \in AllowedMasks[1]
  /\ analysis.term = LBRACE
  /\ analysis.exc.cls = "NgxParserDirectiveArgumentsError"
  /\ analysis.exc.strerror[1] = "invalid number of arguments"

\* a flag directive accepted with an upper-case argument
C23_WitnessFlag ==
  /\ analysis.called
  /\ analysis.stmt.directive = W("gzip")
  /\ analysis.stmt.args = <<W("OFF")>>
  /\ analysis.term = SEMI
  /\ analysis.ctx = <<W("http")>>
  /\ analysis.exc = NoError

\* the step enters the block of the statement it read
BlockEntered ==
  /\ pc = "parse" /\ pc' = "parse"
  /\ Len(stack') = Len(stack) + 1
  /\ ~stack'[Len(stack')].consume

\* the context of the block entered: (http, location) for a location below
\* http, the context of the statement with the directive appended otherwise
ContextEntered ==
  BlockEntered =>
    stack'[Len(stack')].ctx =
      IF Top.ctx # <<>> /\ Top.ctx[1] = W("http") /\ StepToks[1].t = W("location")
      THEN <<W("http"), W("location")>>
      ELSE Top.ctx \o <<StepToks[1].t>>

\* C24: entering a location block from a context whose first element is http
\* gives exactly the context (http, location), so a chain of nested locations
\* stays at two levels; entering any other block appends the directive name
\* to the current context.
C24_LocationContext == [][ContextEntered]_vars

\* three locations nested in one another below http, and an if below a
\* location: the contexts of the blocks the parser is in
C24_Witness ==
  /\ pc = "parse"
  /\ Len(stack) = 5
  /\ stack[2].ctx = <<W("http")>>
  /\ stack[3].ctx = <<W("http"), W("location")>>
  /\ stack[4].ctx = <<W("http"), W("location")>>
  /\ stack[5].ctx = <<W("http"), W("location"), W("if")>>

\* the index of the first terminator of a token list, 0 when it has none
FirstTerm(toks) ==
  IF \E j \in 1..Len(toks) : IsTerm(toks[j])
  THEN CHOOSE j \in 1..Len(toks) :
         IsTerm(toks[j]) /\ \A k \in 1..(j - 1) : ~IsTerm(toks[k])
  ELSE 0

\* The file of worklist entry i starts with a statement ended by ; that the
\* grammar table accepts in the context of the entry, and that is not an
\* include: a statement parsed without error.
FirstStatementValid(i) ==
  LET toks == Src(i)
      j == FirstTerm(toks)
  IN /\ j >= 2
     /\ toks[j].t = SEMI
     /\ \A k \in 1..j : ~IsComment(toks[k])
     /\ toks[1].t \in DOMAIN DIRECTIVES
     /\ toks[1].t # W("include")
     /\ includes[i].ctx \in DOMAIN CONTEXTS
     /\ \E m \in Range(DIRECTIVES[toks[1].t]) :
           Conforms(m, CONTEXTS[includes[i].ctx], SEMI,
                    [k \in 1..(j - 2) |-> toks[k + 1].t])

\* C25: in recover mode an error discards only the offending statement or
\* block: a statement of a file that was parsed without error is in the
\* parsed list of the file when the run ends, whatever error follows it in
\* the file (a brace imbalance included).  Stated for the first statement.
C25_OnlyOffendingDiscarded ==
  (Done /\ opts.catch_errors /\ ~opts.combine) =>
    \A i \in 1..Len(result.value.config) :
       FirstStatementValid(i) =>
          \E n \in Range(result.value.config[i].parsed) :
             n.directive = Src(i)[1].t /\ n.line = Src(i)[1].line

\* C26 (combine): the combine transform terminates on every payload that
\* parse produces, payloads whose include indices form a cycle included: the
\* recursion of _perform_includes has an end and parse returns.
C26_CombineTerminates ==
  (Done /\ opts.combine) => result.raised.cls # "RecursionError"

\* C26 (readable): the readable transform terminates on every payload that
\* parse produces, payloads whose include indices form a cycle included.
C26_ReadableTerminates ==
  readable.called => readable.raised.cls # "RecursionError"

\* C27: at the start of every statement the parser reads, the number of
\* blocks it has entered (the activations of _parse below the outermost)
\* equals the brace depth of the tokens read so far, on the recover paths as
\* on the normal ones; and the outermost loop ends without an exception only
\* when the token stream of the file is exhausted.
C27_DepthInSync ==
  /\ pc = "parse" => Len(stack) = TextDepth(stream.passed) + 1
  /\ (pc = "end" /\ exc = NoError) => stream.st = "eof"

\* ------------------------------------------------------------------- C28
\* the nodes of the file of worklist entry i, as parsed, that carry a file
FiledNodes(i) == {n \in NodesOf(payload.config[i].parsed) : "file" \in DOMAIN n}

\* the recorded errors of the file of worklist entry i whose message names a
\* file ("... in <file>:<line>")
NamingErrors(i) ==
  {e \in Range(payload.config[i].errors) : e.error[2] # <<>>}

\* in combine mode each node of a file carries that file's name
NodesAttributed ==
  (Done /\ opts.combine) =>
    \A i \in 1..Len(payload.config) :
      \A n \in FiledNodes(i) : n.file = payload.config[i].file

\* the message of each error of a file names that file
ErrorsAttributed ==
  Done =>
    \A i \in 1..Len(payload.config) :
      \A e \in NamingErrors(i) : e.error[2] = payload.config[i].file

\* C28: every statement and every validation error is attributed to the file
\* it was read from: in combine mode each node's file field, and in any mode
\* the file name inside each error message, is the file being parsed, also
\* for the statements that follow an expanded include in the same block.
C28_AttributedToFile == NodesAttributed /\ ErrorsAttributed

\* ------------------------------------------------------------------- C29
\* parse returned a payload
Returned == Done /\ result.raised = NoError

\* the config entries of the returned payload that are failed
FailedFiles ==
  {i \in 1..Len(result.value.config) : result.value.config[i].status = "failed"}

\* C29: at the end of a run the payload's status is "failed" iff its errors
\* list is non-empty, each file's status is "failed" iff its own errors list
\* is non-empty, and the payload is failed iff at least one file is failed.
C29_StatusMatchesErrors ==
  Returned =>
    /\ result.value.status \in {"ok", "failed"}
    /\ result.value.status = "failed" <=> result.value.errors # <<>>
    /\ \A i \in 1..Len(result.value.config) :
         /\ result.value.config[i].status \in {"ok", "failed"}
         /\ result.value.config[i].status = "failed"
              <=> result.value.config[i].errors # <<>>
    /\ result.value.status = "failed" <=> FailedFiles # {}

\* a run with an included file: one file is failed, another is not
C29_Witness ==
  /\ Returned
  /\ Len(result.value.config) >= 2
  /\ FailedFiles # {}
  /\ FailedFiles # 1..Len(result.value.config)

\* a run in which errors were recorded in a file before the exception that
\* replaced its record: the payload holds more errors than the files do
C29_WitnessReplaced ==
  /\ Returned
  /\ Len(result.value.errors)
       > Len(ConcatErrors(result.value.config))

\* ------------------------------------------------------------------- C30
\* the worklist indices (0-based, as the code stores them) that the include
\* nodes of the returned trees refer to
ReferencedIndices ==
  UNION {Range(n.includes) : n \in IncludeNodes(result.value.config)}

\* C30: when parse returns without combine, every config entry other than
\* the root is referenced by the includes list of at least one node of some
\* file's parsed tree: no file is parsed whose including directive is absent
\* from the output.
C30_IncludedFilesReferenced ==
  (Returned /\ ~opts.combine) =>
    \A i \in 2..Len(result.value.config) : (i - 1) \in ReferencedIndices

=============================================================================
